---- MODULE Spec2Model ----
(***************************************************************************)
(* Model of the video intelligence pipeline of NexusStudioC:               *)
(* VideoIntelligence (src/services/ffmpegService.ts, lines 178-538) and    *)
(* the detectors, the virality scorer and the overlap removal it calls.    *)
(*                                                                         *)
(* Units.  Time is counted in ticks of a quarter second (the window step   *)
(* clipLen / 4 of a 15 s clip is 3.75 s, so every time the code computes   *)
(* from a duration that is a whole number of ticks is a whole number of    *)
(* ticks).  Audio energy is counted in thousandths (0.01 is 10).  A pixel  *)
(* channel is an 8-bit value 0..255.  Fractions the code computes in       *)
(* floating point are computed here exactly, as pairs <<num, den>>.        *)
(***************************************************************************)
EXTENDS Integers, Sequences, FiniteSets, TLC

VARIABLES
    source,         \* the media behind the video element: duration, pictures, audio track
    pc,             \* where the current analyzeVideo call stands
    frameIdx,       \* extractFrames: the loop index i
    totalFrames,    \* extractFrames: totalFrames
    currentTime,    \* video.currentTime, in ticks
    seeking,        \* a seek is under way and 'seeked' has not fired yet
    canvas,         \* this.canvas: the picture drawn last (kept across runs)
    prevPixels,     \* extractFrames: prevPixels
    frames,         \* FrameData[] of the current run
    scenes,         \* SceneChange[]
    audio,          \* AudioSegment[]
    waveform,       \* the waveform array
    beats,          \* BeatMarker[]
    silentRegions,  \* {start, end}[]
    candidates,     \* findViralClips: candidates, after the sort of line 482
    viralClips,     \* what findViralClips returns
    usedFallback,   \* the catch block of analyzeAudioFromVideo ran in this run
    progress,       \* the onProgress calls of the current run, in order
    seeks,          \* assignments to video.currentTime made by the current run
    result,         \* what the current call returned (None until it returns)
    error,          \* what the current call threw (None unless it threw)
    prevResult,     \* what the last call that returned had returned, and whether its
                    \* catch block had run
    runs,           \* calls of analyzeVideo started so far
    edit,           \* what the last call of a SmartEditor method returned (None before any)
    runDuration,    \* analyzeVideo: the const duration read from video.duration, in ticks
    videoSrc,       \* VideoEditor: the object URL in videoSrc (0 for null, else its number)
    isPlaying,      \* VideoEditor: isPlaying
    isAnalyzing,    \* VideoEditor: isAnalyzing
    analysisProgress, \* VideoEditor: analysisProgress (None for null)
    analysisResult, \* VideoEditor: analysisResult (None for null), with the videoSrc that
                    \* the runAnalysis call which stored it had in its closure
    alerts,         \* VideoEditor: the "Analysis failed" alerts shown so far
    pending         \* VideoEditor: the runAnalysis calls whose await has not returned yet,
                    \* each by the videoSrc in its closure

vars == <<source, pc, frameIdx, totalFrames, currentTime, seeking, canvas, prevPixels,
          frames, scenes, audio, waveform, beats, silentRegions, candidates,
          viralClips, usedFallback, progress, seeks, result, error, prevResult, runs,
          edit, runDuration, videoSrc, isPlaying, isAnalyzing, analysisProgress,
          analysisResult, alerts, pending>>

----------------------------------------------------------------------------
(* Bounds of the model *)

\* SpecDetect: the longest audio segment sequence the detectors are tried on
MaxSegs == 6

----------------------------------------------------------------------------
(* Program constants *)

\* ticks per second: the finest time step the code produces is clipLen / 4
TicksPerSec == 4
\* the sampling interval 0.5 s of extractFrames and the 0.5 s audio segment, in ticks
Interval == 2
\* rms < 0.01 marks a decoded segment silent
SilenceRms == 10
\* derivative > 0.03 is a rise
BeatRise == 30

None == <<>>
Some(x) == <<x>>

Min(a, b) == IF a <= b THEN a ELSE b
Max(a, b) == IF a >= b THEN a ELSE b

----------------------------------------------------------------------------
(* Audio segments *)

\* a segment as the decode path pushes it: { time: i * 0.5, energy: rms, isSilent: rms < 0.01 }
DecodedSegment(i, rms) ==
    [time |-> i * Interval, energy |-> rms, isSilent |-> rms < SilenceRms]

----------------------------------------------------------------------------
(* detectBeats *)

\* a peak test that forgets the fall after the rise
IsPeak_NoFall(derivative, nextDerivative) ==
    derivative > BeatRise /\ nextDerivative <= 0

\* derivative > 0.03 && nextDerivative < 0
IsPeak(derivative, nextDerivative) ==
    derivative > BeatRise /\ nextDerivative < 0

\* the body of the for loop at the 1-based position j of the code's segments[i]:
\* what it pushes
BeatAt(segments, j) ==
    LET derivative == segments[j].energy - segments[j - 1].energy
        nextDerivative == segments[j + 1].energy - segments[j].energy
    IN  IF IsPeak(derivative, nextDerivative)
        THEN <<[time |-> segments[j].time, strength |-> derivative]>>
        ELSE <<>>

RECURSIVE BeatsLoop(_, _, _)
\* the pushes of the iterations lo..hi, in order (the range is halved to keep the
\* evaluation shallow; an iteration reads nothing an earlier one wrote)
BeatsLoop(segments, lo, hi) ==
    IF lo > hi THEN <<>>
    ELSE IF lo = hi THEN BeatAt(segments, lo)
    ELSE BeatsLoop(segments, lo, (lo + hi) \div 2)
         \o BeatsLoop(segments, (lo + hi) \div 2 + 1, hi)

\* for (let i = 1; i < segments.length - 1; i++): 1-based positions 2..Len - 1
detectBeats(segments) ==
    IF Len(segments) < 3 THEN <<>> ELSE BeatsLoop(segments, 2, Len(segments) - 1)

----------------------------------------------------------------------------
(* findSilentRegions *)

\* a duration bar that lets every closed run through
KeepSilence_Any(duration) == duration >= 0

\* duration >= 1: only silence of at least one second counts
KeepSilence(duration) == duration >= 1 * TicksPerSec

\* the body of the for-of loop for seg, from the loop state st = [regions, silenceStart]
\* (silenceStart is None for the code's null)
SilenceBody(st, seg) ==
    IF seg.isSilent
    THEN [regions |-> st.regions,
          silenceStart |-> IF st.silenceStart = None THEN Some(seg.time) ELSE st.silenceStart]
    ELSE IF st.silenceStart # None
         THEN LET duration == seg.time - st.silenceStart[1] IN
              [regions |-> IF KeepSilence(duration)
                           THEN Append(st.regions,
                                       [start |-> st.silenceStart[1], end |-> seg.time])
                           ELSE st.regions,
               silenceStart |-> None]
         ELSE st

RECURSIVE SilenceLoop(_, _, _, _)
\* the loop state after the iterations lo..hi started in state st (the range is halved
\* to keep the evaluation shallow)
SilenceLoop(segments, st, lo, hi) ==
    IF lo > hi THEN st
    ELSE IF lo = hi THEN SilenceBody(st, segments[lo])
    ELSE LET first == SilenceLoop(segments, st, lo, (lo + hi) \div 2)
         IN  \* the test makes TLC compute the first half before it enters the second
             IF Len(first.regions) >= 0
             THEN SilenceLoop(segments, first, (lo + hi) \div 2 + 1, hi)
             ELSE first

\* nothing follows the loop: return regions
findSilentRegions(segments) ==
    SilenceLoop(segments, [regions |-> <<>>, silenceStart |-> None], 1, Len(segments)).regions

----------------------------------------------------------------------------
(* Exact fractions <<num, den>>, den > 0 *)

RECURSIVE GCD(_, _)
GCD(a, b) == IF b = 0 THEN a ELSE GCD(b, a % b)

Rat(n, d) == LET g == GCD(n, d) IN IF g = 0 THEN <<0, 1>> ELSE <<n \div g, d \div g>>
RInt(k) == <<k, 1>>
RAdd(x, y) ==
    LET l == (x[2] \div GCD(x[2], y[2])) * y[2]
    IN  Rat(x[1] * (l \div x[2]) + y[1] * (l \div y[2]), l)
RLess(x, y) == x[1] * y[2] < y[1] * x[2]
RMin(x, y) == IF RLess(y, x) THEN y ELSE x
RMax(x, y) == IF RLess(x, y) THEN y ELSE x
\* Math.round of a fraction >= 0: the nearest integer, a half rounded up
RRound(x) == (2 * x[1] + x[2]) \div (2 * x[2])

----------------------------------------------------------------------------
(* The media source.  A source is a duration, and a picture and an audio    *)
(* energy for every half-second step, given block by block: block b of      *)
(* blockSegs steps shows the video texture vTex[b] and sounds the audio      *)
(* texture aTex[b].                                                          *)

\* the canvas of the constructor (160 x 90 in the code), scaled down
CanvasWidth == 4
CanvasHeight == 1
\* a "cuts" picture jumps every CutEvery frames
CutEvery == 10

CanvasPixels == CanvasWidth * CanvasHeight
\* imageData.data.length: 4 bytes (R, G, B, A) per pixel
CanvasBytes == 4 * CanvasPixels

\* a frame count rounded down: Math.floor(duration / 0.5)
Steps_Floor(dur) == dur \div Interval

Steps(dur) == (dur + Interval - 1) \div Interval        \* Math.ceil(duration / 0.5)

BlockOf(src, k) == Min(Len(src.vTex), (k \div src.blockSegs) + 1)

\* the grey level of the picture at step k
Level(tex, k) ==
    CASE tex = "static" -> 0
      [] tex = "bright" -> 255
      [] tex = "drift"  -> 100 + 10 * (k % 2)
      [] tex = "cuts"   -> 100 + 10 * (k % 2) + 120 * ((k \div CutEvery) % 2)

\* the picture the video shows at time t: CanvasPixels pixels <<R, G, B>>
SourcePicture(src, t) ==
    LET k == t \div Interval
        g == Level(src.vTex[BlockOf(src, k)], k)
    IN  [p \in 1..CanvasPixels |-> <<g, g, g>>]

\* the RMS energy of the decoded audio in segment k
SourceEnergy(src, k) ==
    LET tex == src.aTex[BlockOf(src, k)]
    IN  CASE tex = "silent" -> 0
          [] tex = "hiss"   -> 9
          [] tex = "soft"   -> 20
          [] tex = "quiet"  -> 100
          [] tex = "loud"   -> 500
          [] tex = "pulse"  -> 200 + 400 * (k % 2)

----------------------------------------------------------------------------
(* Pixel math helpers and extractFrames *)

Abs(x) == IF x < 0 THEN -x ELSE x

RECURSIVE SumOver(_, _)
SumOver(f, S) ==
    IF S = {} THEN 0
    ELSE LET x == CHOOSE y \in S : TRUE IN f[x] + SumOver(f, S \ {x})

\* the 1-based pixels the loop "i += 16" of calcMotionDelta visits: byte offsets 0, 16, 32, ...
SampledPixels == { p \in 1..CanvasPixels : (p - 1) % 4 = 0 }

\* calcBrightness, in units of 1 / (1000 * 255 * CanvasPixels)
calcBrightness(pixels) ==
    SumOver([p \in 1..CanvasPixels |->
                 299 * pixels[p][1] + 587 * pixels[p][2] + 114 * pixels[p][3]],
            1..CanvasPixels)

\* the denominator of a motion delta: (current.length / 16) * 255, times the 16
MotionDen == CanvasBytes * 255

\* calcMotionDelta, in units of 1 / MotionDen: diff / (length / 16) / 255
calcMotionDelta(current, previous) ==
    16 * SumOver([p \in SampledPixels |->
                      Abs(current[p][1] - previous[p][1])
                    + Abs(current[p][2] - previous[p][2])
                    + Abs(current[p][3] - previous[p][3])],
                 SampledPixels)

\* a motion delta measured against whatever the canvas held before the frame
MotionOf_Stale(pixels, prev) ==
    IF prev # None THEN calcMotionDelta(pixels, prev[1])
    ELSE IF canvas # None THEN calcMotionDelta(pixels, canvas[1]) ELSE 0

\* prevPixels ? this.calcMotionDelta(pixels, prevPixels) : 0
MotionOf(pixels, prev) ==
    IF prev # None THEN calcMotionDelta(pixels, prev[1]) ELSE 0

\* the FrameData pushed for loop index i from the pixels read (contrast, which takes a
\* square root and is read by no detector, is left out)
FrameOf(i, pixels, prev) ==
    [time |-> i * Interval,
     brightness |-> calcBrightness(pixels),
     motionDelta |-> MotionOf(pixels, prev),
     thumbnail |-> IF i % 5 = 0 THEN Some(pixels) ELSE None]

\* what the whole loop of extractFrames pushes, every seek answered at once: iteration i
\* reads the picture at i * 0.5 s and has the pixels of iteration i - 1 as prevPixels
FramesLoop(src) ==
    [j \in 1..Steps(src.dur) |->
        FrameOf(j - 1, SourcePicture(src, (j - 1) * Interval),
                IF j = 1 THEN None ELSE Some(SourcePicture(src, (j - 2) * Interval)))]

----------------------------------------------------------------------------
(* detectSceneChanges *)

RECURSIVE SumRange(_, _, _, _)
SumRange(seq, fld, lo, hi) ==
    IF lo > hi THEN 0
    ELSE IF lo = hi THEN seq[lo][fld]
    ELSE SumRange(seq, fld, lo, (lo + hi) \div 2) + SumRange(seq, fld, (lo + hi) \div 2 + 1, hi)

\* seq.reduce((s, x) => s + x.fld, 0)
SumField(seq, fld) == SumRange(seq, fld, 1, Len(seq))

\* a threshold at the average itself
IsSceneChange_Average(motionDelta, sum, cnt) == motionDelta * cnt > sum

\* frame.motionDelta > threshold, threshold = avg * 2.5, avg = sum / cnt
IsSceneChange(motionDelta, sum, cnt) == 2 * motionDelta * cnt > 5 * sum

detectSceneChanges(frs) ==
    LET moving == SelectSeq(frs, LAMBDA f : f.motionDelta > 0)
        cnt == Len(moving)
        sum == SumField(moving, "motionDelta")
        hit == SelectSeq(frs, LAMBDA f : cnt > 0 /\ IsSceneChange(f.motionDelta, sum, cnt))
    IN  IF cnt = 0 THEN <<>>
        ELSE [j \in 1..Len(hit) |->
                 [time |-> hit[j].time,
                  \* Math.min(1, motionDelta / (threshold * 2))
                  confidence |-> RMin(RInt(1), Rat(hit[j].motionDelta * cnt, 5 * sum))]]

----------------------------------------------------------------------------
(* findViralClips and removeOverlaps *)

\* const clipDurations = [15, 30, 60], in seconds
clipDurations == <<15, 30, 60>>
\* at most the top 10 survivors are returned
TopClips == 10
\* viralityScore > 35
MinScore == 35

InWindow(x, start, end) == x.time >= start /\ x.time < end

\* the silence inside the window, in ticks: the reduce of lines 444-446
RECURSIVE SilenceIn(_, _, _, _)
SilenceIn(regions, j, start, end) ==
    IF j > Len(regions) THEN 0
    ELSE (IF regions[j].start < end /\ regions[j].end > start
          THEN Min(regions[j].end, end) - Max(regions[j].start, start)
          ELSE 0) + SilenceIn(regions, j + 1, start, end)

\* the five sub-scores and their rounded sum for the window [start, end) of clipLen seconds
WindowScore(frs, scs, aud, bts, regions, start, clipLen) ==
    LET end == start + clipLen * TicksPerSec
        windowAudio == SelectSeq(aud, LAMBDA a : InWindow(a, start, end))
        windowFrames == SelectSeq(frs, LAMBDA f : InWindow(f, start, end))
        sceneCount == Len(SelectSeq(scs, LAMBDA x : InWindow(x, start, end)))
        beatCount == Len(SelectSeq(bts, LAMBDA b : InWindow(b, start, end)))
        silenceInWindow == SilenceIn(regions, 1, start, end)
        \* avgEnergy * 100, the energy counted in thousandths
        energyScore == IF Len(windowAudio) > 0
                       THEN RMin(RInt(30), Rat(SumField(windowAudio, "energy"),
                                               10 * Len(windowAudio)))
                       ELSE RInt(0)
        \* avgMotion * 5, the motion counted in 1 / MotionDen
        motionScore == IF Len(windowFrames) > 0
                       THEN RMin(RInt(25), Rat(5 * SumField(windowFrames, "motionDelta"),
                                               MotionDen * Len(windowFrames)))
                       ELSE RInt(0)
        sceneScore == Min(15, sceneCount * 5)
        beatScore == Min(15, beatCount * 3)
        \* 15 - silencePenalty * 30, silencePenalty = silenceInWindow / clipLen
        silenceScore == RMax(RInt(0),
                             IF 30 * silenceInWindow > 15 * clipLen * TicksPerSec
                             THEN RInt(0)
                             ELSE Rat(15 * clipLen * TicksPerSec - 30 * silenceInWindow,
                                      clipLen * TicksPerSec))
        withThumb == SelectSeq(windowFrames, LAMBDA f : f.thumbnail # None)
    IN  [viralityScore |-> RRound(RAdd(RAdd(energyScore, motionScore),
                                       RAdd(RInt(sceneScore + beatScore), silenceScore))),
         energyScore |-> energyScore,
         motionScore |-> motionScore,
         silenceScore |-> silenceScore,
         reasons |-> (IF RLess(RInt(15), energyScore) THEN <<"High audio energy">> ELSE <<>>)
                  \o (IF RLess(RInt(12), motionScore) THEN <<"Dynamic visuals">> ELSE <<>>)
                  \o (IF sceneCount > 2 THEN <<<<sceneCount, "scene changes">>>> ELSE <<>>)
                  \o (IF beatCount > 3 THEN <<"Strong rhythm">> ELSE <<>>)
                  \o (IF 10 * silenceInWindow < clipLen * TicksPerSec
                      THEN <<"No dead air">> ELSE <<>>),
         thumbnail |-> IF withThumb # <<>> THEN withThumb[1].thumbnail ELSE None]

\* a bar the score of a window without silence alone reaches
PassesScore_SilenceAlone(viralityScore) == viralityScore >= 15

\* if (viralityScore > 35)
PassesScore(viralityScore) == viralityScore > MinScore

\* a candidate whose id leaves the clip length out
Candidate_IdWithoutLength(start, clipLen, sc) ==
    [id |-> <<"vc", (start + 2) \div TicksPerSec>>,
     startTime |-> start,
     endTime |-> start + clipLen * TicksPerSec,
     duration |-> clipLen * TicksPerSec,
     viralityScore |-> sc.viralityScore,
     label |-> <<clipLen, (start \div TicksPerSec) \div 60, (start \div TicksPerSec) % 60>>,
     reasons |-> sc.reasons,
     thumbnail |-> sc.thumbnail]

\* the candidate pushed for a window; start is in ticks, clipLen in seconds
Candidate(start, clipLen, sc) ==
    [id |-> <<"vc", (start + 2) \div TicksPerSec, clipLen>>,   \* vc_${Math.round(start)}_${clipLen}
     startTime |-> start,
     endTime |-> start + clipLen * TicksPerSec,
     duration |-> clipLen * TicksPerSec,
     viralityScore |-> sc.viralityScore,
     \* `${clipLen}s clip @ ${fmtTime(start)}`: minutes and whole seconds
     label |-> <<clipLen, (start \div TicksPerSec) \div 60, (start \div TicksPerSec) % 60>>,
     reasons |-> sc.reasons,
     thumbnail |-> sc.thumbnail]

\* the window step in ticks: Math.max(2, clipLen / 4) seconds
WindowStep(clipLen) == Max(2 * TicksPerSec, clipLen)

\* the starts of the windows of one clip length: start = 0; start + clipLen <= totalDuration
WindowStarts(clipLen, totalDuration) ==
    IF clipLen * TicksPerSec > totalDuration THEN {}
    ELSE { k * WindowStep(clipLen) :
             k \in 0..((totalDuration - clipLen * TicksPerSec) \div WindowStep(clipLen)) }

\* a loop bound that tests the window's start only
WindowFits_StartOnly(start, clipLen, totalDuration) == start <= totalDuration

\* the loop condition: start + clipLen <= totalDuration
WindowFits(start, clipLen, totalDuration) == start + clipLen * TicksPerSec <= totalDuration

RECURSIVE SlideLoop(_, _, _, _, _, _, _, _, _)
\* the inner for loop of one clip length, from start on
SlideLoop(frs, scs, aud, bts, regions, totalDuration, clipLen, start, acc) ==
    IF ~WindowFits(start, clipLen, totalDuration) THEN acc
    ELSE LET sc == WindowScore(frs, scs, aud, bts, regions, start, clipLen)
         IN  SlideLoop(frs, scs, aud, bts, regions, totalDuration, clipLen,
                       start + WindowStep(clipLen),
                       IF PassesScore(sc.viralityScore)
                       THEN Append(acc, Candidate(start, clipLen, sc))
                       ELSE acc)

RECURSIVE LengthsLoop(_, _, _, _, _, _, _, _)
\* the outer for loop over clipDurations
LengthsLoop(frs, scs, aud, bts, regions, totalDuration, j, acc) ==
    IF j > Len(clipDurations) THEN acc
    ELSE LengthsLoop(frs, scs, aud, bts, regions, totalDuration, j + 1,
             IF clipDurations[j] * TicksPerSec > totalDuration THEN acc
             ELSE SlideLoop(frs, scs, aud, bts, regions, totalDuration,
                            clipDurations[j], 0, acc))

\* a comparator with its operands swapped
RECURSIVE InsertByScore_Ascending(_, _)
InsertByScore_Ascending(sorted, c) ==
    IF sorted = <<>> THEN <<c>>
    ELSE IF Head(sorted).viralityScore <= c.viralityScore
         THEN <<Head(sorted)>> \o InsertByScore_Ascending(Tail(sorted), c)
         ELSE <<c>> \o sorted

RECURSIVE InsertByScore(_, _)
\* c put after every element that does not score less: the stable descending sort
InsertByScore(sorted, c) ==
    IF sorted = <<>> THEN <<c>>
    ELSE IF Head(sorted).viralityScore >= c.viralityScore
         THEN <<Head(sorted)>> \o InsertByScore(Tail(sorted), c)
         ELSE <<c>> \o sorted

RECURSIVE SortByScore(_, _, _)
\* candidates.sort((a, b) => b.viralityScore - a.viralityScore)
SortByScore(seq, j, acc) ==
    IF j > Len(seq) THEN acc ELSE SortByScore(seq, j + 1, InsertByScore(acc, seq[j]))

Overlap(a, b) == Max(0, Min(a.endTime, b.endTime) - Max(a.startTime, b.startTime))

\* an overlap test against the kept clip's duration
OverlapsKept_OfKept(k, clip) == 2 * Overlap(k, clip) > k.duration

\* overlap > clip.duration * 0.5, k an already kept clip
OverlapsKept(k, clip) == 2 * Overlap(k, clip) > clip.duration

RECURSIVE OverlapLoop(_, _, _)
OverlapLoop(clips, j, kept) ==
    IF j > Len(clips) THEN kept
    ELSE OverlapLoop(clips, j + 1,
             IF \E i \in 1..Len(kept) : OverlapsKept(kept[i], clips[j])
             THEN kept ELSE Append(kept, clips[j]))

removeOverlaps(clips) == OverlapLoop(clips, 1, <<>>)

\* a return without the slice
TopSlice_All(kept) == kept

\* .slice(0, 10)
TopSlice(kept) == SubSeq(kept, 1, Min(TopClips, Len(kept)))

\* the candidates as sorted by line 482
SortedCandidates(frs, scs, aud, bts, regions, totalDuration) ==
    SortByScore(LengthsLoop(frs, scs, aud, bts, regions, totalDuration, 1, <<>>), 1, <<>>)

findViralClips(frs, scs, aud, bts, regions, totalDuration) ==
    TopSlice(removeOverlaps(SortedCandidates(frs, scs, aud, bts, regions, totalDuration)))

----------------------------------------------------------------------------
(* analyzeVideo, step by step.  JavaScript runs the code between two awaits  *)
(* without interruption; the awaits are the seek of every frame and the      *)
(* fetch, arrayBuffer and decodeAudioData of the audio track.  The code      *)
(* between two awaits is one action, except that the synchronous stages      *)
(* after the audio is there (beats, silence, scoring, completion) are taken  *)
(* one after the other, in the order of lines 212-221, so that the order of  *)
(* the stages can be observed; nothing else of the model writes what they    *)
(* write.                                                                    *)

\* waveformSamples = 1000, new Float32Array(1000)
WaveformSamples == 1000
\* the fallback marks a segment silent when energy < 0.05
FallbackSilence == 50
\* what Math.random() * 0.7 can give: the ends of [0, 0.7)
RandomEnergies_FromZero == {0, 699}

\* what 0.3 + Math.random() * 0.4 can give: the ends of [0.3, 0.7)
RandomEnergies == {300, 699}

\* a guard that tests isFinite only
InvalidDuration_ZeroOk(src) == src.durKind \in {"nan", "inf"}

\* !duration || !isFinite(duration)
InvalidDuration(src) ==
    src.durKind \in {"nan", "inf"} \/ (src.durKind = "finite" /\ src.dur = 0)

Call(stage, pct) == <<stage, pct>>

\* a loop that reports the share of the frames still to come
LoopProgress_Remaining(i, total) ==
    IF i % 10 = 0 THEN <<Call("Extracting frames", RRound(Rat(40 * (total - i), total)))>>
    ELSE <<>>

\* onProgress inside the loop: if (i % 10 === 0) Math.round((i / totalFrames) * 40)
LoopProgress(i, total) ==
    IF i % 10 = 0 THEN <<Call("Extracting frames", RRound(Rat(40 * i, total)))>> ELSE <<>>

\* every onProgress call of the loop when it ran to the end: one for i = 0, 10, 20, ...
ExtractProgress(total) ==
    [j \in 1..((total + 9) \div 10) |-> LoopProgress(10 * (j - 1), total)[1]]

\* the decode path of analyzeAudioFromVideo: one segment per 0.5 s of the decoded track,
\* which is as long as the video
DecodedAudio(src) ==
    [k \in 1..Steps(src.dur) |-> DecodedSegment(k - 1, SourceEnergy(src, k - 1))]

\* a fallback bar of 0.5 instead of 0.05
SyntheticSilent_Half(energy) == energy < 10 * FallbackSilence

\* isSilent: energy < 0.05
SyntheticSilent(energy) == energy < FallbackSilence

\* a fallback loop that stops one step early
SyntheticAudio_DropLast(src, rnd) ==
    [k \in 1..(Steps(src.dur) - 1) |->
        [time |-> (k - 1) * Interval, energy |-> rnd[k], isSilent |-> SyntheticSilent(rnd[k])]]

\* the catch block: for (t = 0; t < duration; t += 0.5), energies drawn at random
SyntheticAudio(src, rnd) ==
    [k \in 1..Steps(src.dur) |->
        [time |-> (k - 1) * Interval, energy |-> rnd[k], isSilent |-> SyntheticSilent(rnd[k])]]

RunLocals == <<frameIdx, totalFrames, prevPixels, runDuration>>
VideoElement == <<currentTime, seeking, seeks>>
Detected == <<scenes, beats, silentRegions, candidates, viralClips>>
Outcome == <<result, error, prevResult, runs>>
\* the state of the VideoEditor component that analyzeVideo does not write itself
Ui == <<videoSrc, isPlaying, isAnalyzing, analysisResult, alerts, pending>>
Editor == <<edit, videoSrc, isPlaying, isAnalyzing, analysisResult, alerts, pending>>

\* what analysisProgress holds after the onProgress calls: the callback of runAnalysis
\* is setAnalysisProgress({ stage, pct }); a call not made by the editor passes none
Shown(calls, byEditor) ==
    IF byEditor /\ calls # <<>> THEN Some(calls[Len(calls)]) ELSE analysisProgress

\* onProgress?.(stage, pct), for each of calls in order
OnProgress(calls) ==
    /\ progress' = progress \o calls
    /\ analysisProgress' = Shown(calls, pending # <<>>)

\* analyzeVideo is called: lines 198-204, up to the first await of extractFrames
CallAnalyzeVideo(maxRuns, byEditor) ==
    /\ runs < maxRuns
    /\ runs' = runs + 1
    /\ prevResult' = IF result # None
                     THEN Some([returned |-> result[1], usedFallback |-> usedFallback])
                     ELSE prevResult
    /\ result' = None
    /\ frames' = <<>>
    /\ scenes' = <<>>
    /\ audio' = <<>>
    /\ waveform' = None
    /\ beats' = <<>>
    /\ silentRegions' = <<>>
    /\ candidates' = <<>>
    /\ viralClips' = <<>>
    /\ usedFallback' = FALSE
    /\ frameIdx' = 0
    /\ prevPixels' = None
    /\ runDuration' = source.dur
    /\ IF InvalidDuration(source)
       THEN /\ error' = Some("Video has no valid duration")
            /\ pc' = "failed"
            /\ progress' = <<>>
            /\ analysisProgress' = Shown(<<>>, byEditor)
            /\ seeks' = 0
            /\ UNCHANGED <<totalFrames, currentTime, seeking>>
       ELSE /\ error' = None
            /\ progress' = <<Call("Extracting frames", 0)>>
            /\ analysisProgress' = Shown(<<Call("Extracting frames", 0)>>, byEditor)
            /\ totalFrames' = Steps(source.dur)
            /\ IF Steps(source.dur) > 0
               \* i = 0: video.currentTime = 0, then await 'seeked'
               THEN /\ currentTime' = 0
                    /\ seeking' = TRUE
                    /\ seeks' = 1
                    /\ pc' = "seeking"
               \* the loop body never runs
               ELSE /\ seeks' = 0
                    /\ pc' = "frames"
                    /\ UNCHANGED <<currentTime, seeking>>
    /\ UNCHANGED <<source, canvas>>

\* analyzeVideo called on the video element directly, with no editor around it, when no
\* call is under way
StartAnalysis(maxRuns) ==
    /\ pc \in {"idle", "done", "failed"}
    /\ CallAnalyzeVideo(maxRuns, FALSE)
    /\ UNCHANGED Editor

\* 'seeked' fires: lines 252-272 for the frame at frameIdx, then the next seek or the return
Seeked ==
    /\ pc = "seeking"
    /\ seeking
    /\ LET pixels == SourcePicture(source, currentTime)      \* drawImage, getImageData
       IN  /\ canvas' = Some(pixels)
           /\ frames' = Append(frames, FrameOf(frameIdx, pixels, prevPixels))
           /\ prevPixels' = Some(pixels)
    /\ OnProgress(LoopProgress(frameIdx, totalFrames))
    /\ frameIdx' = frameIdx + 1
    /\ IF frameIdx + 1 < totalFrames
       THEN /\ currentTime' = (frameIdx + 1) * Interval
            /\ seeking' = TRUE
            /\ seeks' = seeks + 1
            /\ pc' = "seeking"
       ELSE /\ seeking' = FALSE
            /\ pc' = "frames"
            /\ UNCHANGED <<currentTime, seeks>>
    /\ UNCHANGED <<source, totalFrames, runDuration, audio, waveform, usedFallback>>
    /\ UNCHANGED Detected
    /\ UNCHANGED Outcome
    /\ UNCHANGED Editor

\* lines 206-210 and 305: scene detection, then the fetch of the audio is awaited
ScenesStep ==
    /\ pc = "frames"
    /\ scenes' = detectSceneChanges(frames)
    /\ OnProgress(<<Call("Detecting scenes", 40), Call("Analyzing audio", 55)>>)
    /\ pc' = "fetch"
    /\ UNCHANGED <<source, canvas, frames, audio, waveform, usedFallback,
                   beats, silentRegions, candidates, viralClips>>
    /\ UNCHANGED RunLocals
    /\ UNCHANGED VideoElement
    /\ UNCHANGED Outcome
    /\ UNCHANGED Editor

AudioAwait(from, to) ==
    /\ pc = from
    /\ pc' = to
    /\ UNCHANGED <<source, canvas, frames, audio, waveform, usedFallback, progress,
                   analysisProgress>>
    /\ UNCHANGED RunLocals
    /\ UNCHANGED VideoElement
    /\ UNCHANGED Detected
    /\ UNCHANGED Outcome
    /\ UNCHANGED Editor

\* await fetch(video.src) resolves
FetchStep == AudioAwait("fetch", "arrayBuffer")

\* await response.arrayBuffer() resolves
BufferStep == AudioAwait("arrayBuffer", "decode")

AudioReady(segs, synthetic, calls) ==
    /\ audio' = segs
    \* the points are the block averages of the decoded samples, or drawn at random
    /\ waveform' = Some([length |-> WaveformSamples,
                         points |-> IF synthetic THEN "random" ELSE "averaged"])
    /\ usedFallback' = synthetic
    /\ OnProgress(calls)
    /\ pc' = "segmented"
    /\ UNCHANGED <<source, canvas, frames>>
    /\ UNCHANGED RunLocals
    /\ UNCHANGED VideoElement
    /\ UNCHANGED Detected
    /\ UNCHANGED Outcome
    /\ UNCHANGED Editor

\* await decodeAudioData resolves: lines 309-344
DecodeOk ==
    /\ pc = "decode"
    /\ AudioReady(DecodedAudio(source), FALSE, <<Call("Analyzing audio", 60)>>)

\* one of the three awaits rejects: the catch block, lines 345-358, Math.random giving
\* one of the sequences draws
AudioThrowsDrawing(draws) ==
    /\ pc \in {"fetch", "arrayBuffer", "decode"}
    /\ \E rnd \in draws : AudioReady(SyntheticAudio(source, rnd), TRUE, <<>>)

AudioThrows == AudioThrowsDrawing([1..Steps(source.dur) -> RandomEnergies])

\* lines 212-213
DetectBeatsStep ==
    /\ pc = "segmented"
    /\ OnProgress(<<Call("Finding beats", 70)>>)
    /\ beats' = detectBeats(audio)
    /\ pc' = "beats"
    /\ UNCHANGED <<source, canvas, frames, audio, waveform, usedFallback,
                   scenes, silentRegions, candidates, viralClips>>
    /\ UNCHANGED RunLocals
    /\ UNCHANGED VideoElement
    /\ UNCHANGED Outcome
    /\ UNCHANGED Editor

\* lines 215-216
FindSilenceStep ==
    /\ pc = "beats"
    /\ OnProgress(<<Call("Detecting silence", 75)>>)
    /\ silentRegions' = findSilentRegions(audio)
    /\ pc' = "silence"
    /\ UNCHANGED <<source, canvas, frames, audio, waveform, usedFallback,
                   scenes, beats, candidates, viralClips>>
    /\ UNCHANGED RunLocals
    /\ UNCHANGED VideoElement
    /\ UNCHANGED Outcome
    /\ UNCHANGED Editor

\* a scorer that does not wait for the beat and silence detectors
ScoreStep_BeforeDetectors ==
    /\ pc = "segmented"
    /\ OnProgress(<<Call("Scoring clips", 85)>>)
    /\ candidates' = SortedCandidates(frames, scenes, audio, beats, silentRegions, runDuration)
    /\ viralClips' = findViralClips(frames, scenes, audio, beats, silentRegions, runDuration)
    /\ pc' = "scored"
    /\ UNCHANGED <<source, canvas, frames, audio, waveform, usedFallback,
                   scenes, beats, silentRegions>>
    /\ UNCHANGED RunLocals
    /\ UNCHANGED VideoElement
    /\ UNCHANGED Outcome
    /\ UNCHANGED Editor

\* lines 218-219
ScoreStep ==
    /\ pc = "silence"
    /\ OnProgress(<<Call("Scoring clips", 85)>>)
    /\ candidates' = SortedCandidates(frames, scenes, audio, beats, silentRegions, runDuration)
    /\ viralClips' = findViralClips(frames, scenes, audio, beats, silentRegions, runDuration)
    /\ pc' = "scored"
    /\ UNCHANGED <<source, canvas, frames, audio, waveform, usedFallback,
                   scenes, beats, silentRegions>>
    /\ UNCHANGED RunLocals
    /\ UNCHANGED VideoElement
    /\ UNCHANGED Outcome
    /\ UNCHANGED Editor

\* lines 221-232
CompleteStep ==
    /\ pc = "scored"
    /\ OnProgress(<<Call("Complete", 100)>>)
    /\ result' = Some([frames |-> frames, scenes |-> scenes, audio |-> audio,
                       beats |-> beats, silentRegions |-> silentRegions,
                       viralClips |-> viralClips, waveform |-> waveform[1],
                       duration |-> runDuration])
    /\ pc' = "done"
    /\ UNCHANGED <<source, canvas, frames, audio, waveform, usedFallback,
                   error, prevResult, runs>>
    /\ UNCHANGED RunLocals
    /\ UNCHANGED VideoElement
    /\ UNCHANGED Detected
    /\ UNCHANGED Editor

\* no VideoEditor is mounted: the video element is handed to analyzeVideo directly
UiIdle ==
    /\ videoSrc = 0
    /\ isPlaying = FALSE
    /\ isAnalyzing = FALSE
    /\ analysisProgress = None
    /\ analysisResult = None
    /\ alerts = 0
    /\ pending = <<>>

Fresh ==
    /\ frameIdx = 0
    /\ totalFrames = 0
    /\ currentTime = 0
    /\ seeking = FALSE
    /\ canvas = None
    /\ prevPixels = None
    /\ frames = <<>>
    /\ scenes = <<>>
    /\ audio = <<>>
    /\ waveform = None
    /\ beats = <<>>
    /\ silentRegions = <<>>
    /\ candidates = <<>>
    /\ viralClips = <<>>
    /\ usedFallback = FALSE
    /\ progress = <<>>
    /\ seeks = 0
    /\ result = None
    /\ error = None
    /\ prevResult = None
    /\ runs = 0
    /\ edit = None
    /\ runDuration = 0
    /\ UiIdle

----------------------------------------------------------------------------
(* Spec: analyzeVideo on short sources of every kind of duration, the audio  *)
(* decoded or not, called up to MaxRuns times on the same instance.          *)

\* the longest finite duration of a short source, in ticks
MaxShortDur == 5
MaxRuns == 2

ShortVideoTextures == {"static", "bright"}
ShortAudioTextures == {"hiss", "loud"}

SourcesOf(durs, blockSegs, vts, ats) ==
    UNION { { [durKind |-> "finite", dur |-> d, blockSegs |-> blockSegs, vTex |-> v, aTex |-> a]
              : v \in [1..((Steps(d) + blockSegs - 1) \div blockSegs) -> vts],
                a \in [1..((Steps(d) + blockSegs - 1) \div blockSegs) -> ats] }
            : d \in durs }

BadSources ==
    { [durKind |-> k, dur |-> 0, blockSegs |-> 1, vTex |-> <<"static">>, aTex |-> <<"loud">>]
      : k \in {"nan", "inf", "finite"} }

ShortSources ==
    BadSources \cup SourcesOf(1..MaxShortDur, 1, ShortVideoTextures, ShortAudioTextures)

Init ==
    /\ source \in ShortSources
    /\ pc = "idle"
    /\ Fresh

Analyze == StartAnalysis(MaxRuns)

Next ==
    \/ Analyze
    \/ Seeked
    \/ ScenesStep
    \/ FetchStep
    \/ BufferStep
    \/ DecodeOk
    \/ AudioThrows
    \/ DetectBeatsStep
    \/ FindSilenceStep
    \/ ScoreStep
    \/ CompleteStep

Spec == Init /\ [][Next]_vars

----------------------------------------------------------------------------
(* SpecViral: the detectors and findViralClips applied to the frames and the *)
(* decoded audio of long sources; the frames are sampled and the audio is    *)
(* decoded without a pause.                                                  *)

\* the longest duration of a long source, in ticks (300 ticks are 75 s)
MaxLongDur == 300
\* long durations are the multiples of DurStep ticks and one tick less
DurStep == 60
\* a long source changes texture every BlockSegs half-second steps
BlockSegs == 80

LongVideoTextures == {"static", "drift", "cuts"}
LongAudioTextures == {"silent", "quiet", "pulse"}

LongDurations == { d \in 1..MaxLongDur : d % DurStep = 0 \/ (d + 1) % DurStep = 0 }

LongSources == SourcesOf(LongDurations, BlockSegs, LongVideoTextures, LongAudioTextures)

\* the state when extractFrames has returned, all its seeks answered
Sampled(src) ==
    /\ source = src
    /\ pc = "frames"
    /\ frames = FramesLoop(src)
    /\ totalFrames = Steps(src.dur)
    /\ frameIdx = Steps(src.dur)
    /\ currentTime = (Steps(src.dur) - 1) * Interval
    /\ seeking = FALSE
    /\ seeks = Steps(src.dur)
    /\ canvas = Some(SourcePicture(src, (Steps(src.dur) - 1) * Interval))
    /\ prevPixels = canvas
    /\ progress = <<Call("Extracting frames", 0)>> \o ExtractProgress(Steps(src.dur))
    /\ scenes = <<>>
    /\ audio = <<>>
    /\ waveform = None
    /\ beats = <<>>
    /\ silentRegions = <<>>
    /\ candidates = <<>>
    /\ viralClips = <<>>
    /\ usedFallback = FALSE
    /\ result = None
    /\ error = None
    /\ prevResult = None
    /\ runs = 1
    /\ edit = None
    /\ runDuration = src.dur
    /\ UiIdle

ViralInit == \E src \in LongSources : Sampled(src)

\* fetch, arrayBuffer and decodeAudioData resolve one after the other: lines 305-344
DecodeAll ==
    /\ pc = "fetch"
    /\ AudioReady(DecodedAudio(source), FALSE, <<Call("Analyzing audio", 60)>>)

ViralNext ==
    \/ ScenesStep
    \/ DecodeAll
    \/ DetectBeatsStep
    \/ FindSilenceStep
    \/ ScoreStep
    \/ CompleteStep

SpecViral == ViralInit /\ [][ViralNext]_vars

----------------------------------------------------------------------------
(* SpecRerun: analyzeVideo called again and again on the same instance and   *)
(* the same long source, every seek and every await of the audio a step of   *)
(* its own.  When the audio fails, Math.random is sampled by the sequences   *)
(* that repeat one energy.                                                   *)

\* the longest duration of a source that is analyzed again, in ticks (120 ticks are 30 s)
MaxRerunDur == 120
MaxReruns == 2

RerunInit ==
    /\ source \in { src \in LongSources : src.dur <= MaxRerunDur }
    /\ pc = "idle"
    /\ Fresh

AnalyzeAgain == StartAnalysis(MaxReruns)

AudioThrowsFlat ==
    AudioThrowsDrawing({ [k \in 1..Steps(source.dur) |-> e] : e \in RandomEnergies })

RerunNext ==
    \/ AnalyzeAgain
    \/ Seeked
    \/ ScenesStep
    \/ FetchStep
    \/ BufferStep
    \/ DecodeOk
    \/ AudioThrowsFlat
    \/ DetectBeatsStep
    \/ FindSilenceStep
    \/ ScoreStep
    \/ CompleteStep

SpecRerun == RerunInit /\ [][RerunNext]_vars

----------------------------------------------------------------------------
(* SpecDetect: the two audio detectors applied, in the order analyzeVideo    *)
(* calls them, to every short segment sequence the decode path can produce.  *)

\* energies around the two thresholds: 0.009 and 0.01 (silence), a rise of exactly 0.03
EnergyLevels == {0, 9, 10, 40}

SegmentsOf(rms) == [i \in 1..Len(rms) |-> DecodedSegment(i - 1, rms[i])]

DetectInit ==
    /\ \E n \in 0..MaxSegs :
          \E rms \in [1..n -> EnergyLevels] : audio = SegmentsOf(rms)
    /\ source = [durKind |-> "finite", dur |-> Len(audio) * Interval, blockSegs |-> 1,
                 vTex |-> <<"static">>, aTex |-> <<"loud">>]
    /\ pc = "segmented"
    /\ frameIdx = 0
    /\ totalFrames = 0
    /\ currentTime = 0
    /\ seeking = FALSE
    /\ canvas = None
    /\ prevPixels = None
    /\ frames = <<>>
    /\ scenes = <<>>
    /\ waveform = Some([length |-> WaveformSamples, points |-> "averaged"])
    /\ beats = <<>>
    /\ silentRegions = <<>>
    /\ candidates = <<>>
    /\ viralClips = <<>>
    /\ usedFallback = FALSE
    /\ progress = <<>>
    /\ seeks = 0
    /\ result = None
    /\ error = None
    /\ prevResult = None
    /\ runs = 1
    /\ edit = None
    /\ runDuration = source.dur
    /\ UiIdle

DetectNext == DetectBeatsStep \/ FindSilenceStep

SpecDetect == DetectInit /\ [][DetectNext]_vars

----------------------------------------------------------------------------
(* SmartEditor (src/unnamed/part_003).  The times of cut and speed actions   *)
(* and of clips are whole ticks; the times of a transition, 0.2 s before and *)
(* after a scene change, and the confidences are fractions <<num, den>>.     *)

\* autoEdit builds the reel with a budget of 60 s
ReelBudget == 60
\* findConsecutiveSegments is called with minDuration 1.5 s, in ticks
MinRun == 6

\* Math.round(t * 2) / 2 for a time t in ticks: the nearest multiple of 0.5 s
RoundHalf(t) == ((2 * t + Interval) \div (2 * Interval)) * Interval

\* the times one region adds to silentSet: for (t = start; t < end; t += 0.5)
RegionSteps(region) ==
    { RoundHalf(region.start + k * Interval) :
        k \in 0..(((region.end - region.start + Interval - 1) \div Interval) - 1) }

\* silentSet after the loop over the silent regions
SilentSet(regions) == UNION { RegionSteps(regions[r]) : r \in 1..Len(regions) }

\* the body of the scan for the time t, from the loop state st = [segments, segStart]
TrimBody(st, t, silentSet) ==
    LET rounded == RoundHalf(t) IN
    IF rounded \notin silentSet
    THEN [segments |-> st.segments,
          segStart |-> IF st.segStart = None THEN Some(rounded) ELSE st.segStart]
    ELSE IF st.segStart # None
         THEN [segments |-> Append(st.segments, [start |-> st.segStart[1], end |-> rounded]),
               segStart |-> None]
         ELSE st

RECURSIVE TrimLoop(_, _, _, _)
\* the loop state after the iterations t = lo * 0.5 s .. hi * 0.5 s started in state st
\* (the range is halved to keep the evaluation shallow)
TrimLoop(silentSet, st, lo, hi) ==
    IF lo > hi THEN st
    ELSE IF lo = hi THEN TrimBody(st, lo * Interval, silentSet)
    ELSE LET first == TrimLoop(silentSet, st, lo, (lo + hi) \div 2)
         IN  IF Len(first.segments) >= 0
             THEN TrimLoop(silentSet, first, (lo + hi) \div 2 + 1, hi)
             ELSE first

\* a return that forgets the run still open after the loop
TrimFlush_Dropped(st, duration) == st.segments

\* if (segStart !== null) segments.push({ start: segStart, end: analysis.duration })
TrimFlush(st, duration) ==
    IF st.segStart # None
    THEN Append(st.segments, [start |-> st.segStart[1], end |-> duration])
    ELSE st.segments

\* for (let t = 0; t < analysis.duration; t += 0.5): Steps(duration) iterations
autoTrimSilence(analysis) ==
    TrimFlush(TrimLoop(SilentSet(analysis.silentRegions),
                       [segments |-> <<>>, segStart |-> None],
                       0, Steps(analysis.duration) - 1),
              analysis.duration)

buildClipsWithoutSilence(analysis) ==
    LET segments == autoTrimSilence(analysis) IN
    [i \in 1..Len(segments) |->
        [id |-> <<"auto_v", i - 1>>,
         name |-> <<"Clip", i>>,
         track |-> "video",
         startTime |-> segments[i].start,
         duration |-> segments[i].end - segments[i].start,
         color |-> (i - 1) % 5,
         opacity |-> 100,
         volume |-> 100,
         speed |-> 1]]

\* a run that is only broken by a gap of more than two seconds
RunBreaks_TwoSeconds(time, prevTime) == time - prevTime > 2 * TicksPerSec

\* segments[i].time - prevTime > 1: a gap of more than one second starts a new run
RunBreaks(time, prevTime) == time - prevTime > 1 * TicksPerSec

\* prevTime - start >= minDuration
RunLongEnough(start, prevTime, minDuration) == prevTime - start >= minDuration

\* results with the run start..prevTime pushed when it is long enough
PushRun(results, start, prevTime, minDuration) ==
    IF RunLongEnough(start, prevTime, minDuration)
    THEN Append(results, [start |-> start, end |-> prevTime + Interval])
    ELSE results

\* the body of the loop for segments[i], from the state st = [results, start, prevTime]
RunBody(st, seg, minDuration) ==
    IF RunBreaks(seg.time, st.prevTime)
    THEN [results |-> PushRun(st.results, st.start, st.prevTime, minDuration),
          start |-> seg.time,
          prevTime |-> seg.time]
    ELSE [results |-> st.results, start |-> st.start, prevTime |-> seg.time]

RECURSIVE RunLoop(_, _, _, _, _)
RunLoop(segments, minDuration, st, lo, hi) ==
    IF lo > hi THEN st
    ELSE IF lo = hi THEN RunBody(st, segments[lo], minDuration)
    ELSE LET first == RunLoop(segments, minDuration, st, lo, (lo + hi) \div 2)
         IN  IF Len(first.results) >= 0
             THEN RunLoop(segments, minDuration, first, (lo + hi) \div 2 + 1, hi)
             ELSE first

findConsecutiveSegments(segments, minDuration) ==
    IF segments = <<>> THEN <<>>
    ELSE LET st == RunLoop(segments, minDuration,
                           [results |-> <<>>, start |-> segments[1].time,
                            prevTime |-> segments[1].time],
                           2, Len(segments))
         IN  PushRun(st.results, st.start, st.prevTime, minDuration)

\* a budget test made before the clip is added
ReelFits_BeforeAdd(totalDur, clip, targetDuration) == totalDur <= targetDuration

\* totalDur + clip.duration <= targetDuration
ReelFits(totalDur, clip, targetDuration) == totalDur + clip.duration <= targetDuration

\* the body of the loop for clip, from the state st = [selected, totalDur, stopped]
\* (stopped once the break was taken)
ReelBody(st, clip, targetDuration) ==
    IF st.stopped THEN st
    ELSE LET fits == ReelFits(st.totalDur, clip, targetDuration)
             totalDur == IF fits THEN st.totalDur + clip.duration ELSE st.totalDur
         IN  [selected |-> IF fits THEN Append(st.selected, clip) ELSE st.selected,
              totalDur |-> totalDur,
              stopped |-> totalDur >= targetDuration]

RECURSIVE ReelLoop(_, _, _, _)
ReelLoop(sorted, j, st, targetDuration) ==
    IF j > Len(sorted) THEN st
    ELSE ReelLoop(sorted, j + 1, ReelBody(st, sorted[j], targetDuration), targetDuration)

RECURSIVE InsertByStart(_, _)
\* c put after every element that does not start later: the stable ascending sort
InsertByStart(sorted, c) ==
    IF sorted = <<>> THEN <<c>>
    ELSE IF Head(sorted).startTime <= c.startTime
         THEN <<Head(sorted)>> \o InsertByStart(Tail(sorted), c)
         ELSE <<c>> \o sorted

RECURSIVE SortByStart(_, _, _)
\* selected.sort((a, b) => a.startTime - b.startTime)
SortByStart(seq, j, acc) ==
    IF j > Len(seq) THEN acc ELSE SortByStart(seq, j + 1, InsertByStart(acc, seq[j]))

\* targetDuration is in ticks
createHighlightReel(clips, targetDuration) ==
    LET st == ReelLoop(SortByScore(clips, 1, <<>>), 1,
                       [selected |-> <<>>, totalDur |-> 0, stopped |-> FALSE],
                       targetDuration)
        selected == SortByStart(st.selected, 1, <<>>)
    IN  [clips |-> selected,
         totalDuration |-> st.totalDur,
         estimatedViralScore |->
             IF Len(selected) > 0
             THEN RRound(Rat(SumField(selected, "viralityScore"), Len(selected)))
             ELSE 0]

\* a.energy < avgEnergy * 0.4 && !a.isSilent, avgEnergy = sum / (length || 1)
IsLowEnergy(a, sum, cnt) == 10 * a.energy * cnt < 4 * sum /\ ~a.isSilent

CutAction(region) ==
    [type |-> "cut", startTime |-> region.start, endTime |-> region.end,
     label |-> <<"Remove silence", region.end - region.start>>,
     confidence |-> Rat(9, 10), icon |-> "volume_off"]

\* scene.time - 0.2 and scene.time + 0.2: a fifth of a second is 4/5 of a tick
TransitionAction(scene) ==
    [type |-> "transition",
     startTime |-> Rat(5 * scene.time - 4, 5), endTime |-> Rat(5 * scene.time + 4, 5),
     label |-> <<"Add transition at scene change">>,
     confidence |-> scene.confidence, icon |-> "swap_horiz"]

SpeedAction(seg) ==
    [type |-> "speed", startTime |-> seg.start, endTime |-> seg.end,
     label |-> <<"Speed up slow section (1.5x)">>,
     confidence |-> Rat(7, 10), icon |-> "speed"]

\* the segments autoEdit hands to findConsecutiveSegments
LowEnergySegments(aud) ==
    LET sum == SumField(aud, "energy")
        cnt == IF Len(aud) = 0 THEN 1 ELSE Len(aud)
    IN  SelectSeq(aud, LAMBDA a : IsLowEnergy(a, sum, cnt))

autoEdit(analysis) ==
    LET cuts == [r \in 1..Len(analysis.silentRegions) |-> CutAction(analysis.silentRegions[r])]
        sure == SelectSeq(analysis.scenes, LAMBDA s : RLess(Rat(1, 2), s.confidence))
        transitions == [s \in 1..Len(sure) |-> TransitionAction(sure[s])]
        runs15 == findConsecutiveSegments(LowEnergySegments(analysis.audio), MinRun)
        speeds == [s \in 1..Len(runs15) |-> SpeedAction(runs15[s])]
    IN  [clips |-> buildClipsWithoutSilence(analysis),
         actions |-> cuts \o transitions \o speeds,
         highlightReel |-> createHighlightReel(analysis.viralClips, ReelBudget * TicksPerSec)]

\* VideoEditor.applyAutoEdit: smartEditor.autoEdit(analysisResult), once a result is stored
AutoEditStep ==
    /\ pc = "done"
    /\ result # None
    /\ edit = None
    /\ edit' = Some(autoEdit(result[1]))
    /\ UNCHANGED <<source, pc, canvas, frames, audio, waveform, usedFallback, progress,
                   analysisProgress>>
    /\ UNCHANGED RunLocals
    /\ UNCHANGED VideoElement
    /\ UNCHANGED Detected
    /\ UNCHANGED Outcome
    /\ UNCHANGED Ui

\* createHighlightReel called on the stored candidates with the budget targetDuration
ReelStep(targetDuration) ==
    /\ edit = None
    /\ edit' = Some([targetDuration |-> targetDuration,
                     highlightReel |-> createHighlightReel(viralClips, targetDuration)])
    /\ UNCHANGED <<source, pc, canvas, frames, audio, waveform, usedFallback, progress,
                   analysisProgress>>
    /\ UNCHANGED RunLocals
    /\ UNCHANGED VideoElement
    /\ UNCHANGED Detected
    /\ UNCHANGED Outcome
    /\ UNCHANGED Ui

----------------------------------------------------------------------------
(* SpecScenes: detectSceneChanges applied to the frames of sources whose     *)
(* picture may change every SceneBlock frames (every 5 s), all frames        *)
(* sampled at once.                                                          *)

\* a scene source changes texture every SceneBlock half-second steps
SceneBlock == 10
\* the longest duration of a scene source, in ticks (48 ticks are 12 s)
MaxSceneDur == 48

SceneTextures == {"static", "bright", "drift"}

ScenesInit ==
    \E src \in SourcesOf(1..MaxSceneDur, SceneBlock, SceneTextures, {"loud"}) : Sampled(src)

ScenesNext == ScenesStep

SpecScenes == ScenesInit /\ [][ScenesNext]_vars

----------------------------------------------------------------------------
(* SpecProgress: analyzeVideo called on sources without a valid duration and *)
(* on long sources, every seek and every await of the audio a step of its    *)
(* own, to follow the onProgress calls of a run.                             *)

ProgressInit ==
    /\ source \in BadSources \cup { src \in LongSources : src.dur <= MaxRerunDur }
    /\ pc = "idle"
    /\ Fresh

SpecProgress == ProgressInit /\ [][RerunNext]_vars

----------------------------------------------------------------------------
(* SpecReel: createHighlightReel applied to every short list of candidates   *)
(* and every budget that is a multiple of 15 s.                              *)

\* the longest list of candidates handed to createHighlightReel
MaxReelClips == 3
\* the largest budget, in units of 15 s
MaxReelTarget == 5

ReelScores == {40, 80}

ReelClips ==
    { Candidate(start, clipDurations[j],
                [viralityScore |-> score, reasons |-> <<>>, thumbnail |-> None]) :
        start \in {0, 15 * TicksPerSec}, j \in 1..Len(clipDurations), score \in ReelScores }

ReelTargets == { 15 * TicksPerSec * k : k \in 0..MaxReelTarget }

ReelInit ==
    /\ \E n \in 0..MaxReelClips : viralClips \in [1..n -> ReelClips]
    /\ source = [durKind |-> "finite", dur |-> 75 * TicksPerSec, blockSegs |-> 1,
                 vTex |-> <<"static">>, aTex |-> <<"loud">>]
    /\ pc = "idle"
    /\ frameIdx = 0
    /\ totalFrames = 0
    /\ currentTime = 0
    /\ seeking = FALSE
    /\ canvas = None
    /\ prevPixels = None
    /\ frames = <<>>
    /\ scenes = <<>>
    /\ audio = <<>>
    /\ waveform = None
    /\ beats = <<>>
    /\ silentRegions = <<>>
    /\ candidates = <<>>
    /\ usedFallback = FALSE
    /\ progress = <<>>
    /\ seeks = 0
    /\ result = None
    /\ error = None
    /\ prevResult = None
    /\ runs = 0
    /\ edit = None
    /\ runDuration = source.dur
    /\ UiIdle

ReelNext == \E targetDuration \in ReelTargets : ReelStep(targetDuration)

SpecReel == ReelInit /\ [][ReelNext]_vars

----------------------------------------------------------------------------
(* SpecEdit: autoEdit applied to the result analyzeVideo returns for short   *)
(* sources whose audio changes every half second; the frames are sampled and *)
(* the audio is decoded without a pause.                                     *)

\* the longest duration of an edited source, in ticks
MaxEditDur == 10

EditAudioTextures == {"silent", "soft", "quiet", "loud"}

EditInit ==
    \E src \in SourcesOf(1..MaxEditDur, 1, {"static"}, EditAudioTextures) : Sampled(src)

EditNext ==
    \/ ScenesStep
    \/ DecodeAll
    \/ DetectBeatsStep
    \/ FindSilenceStep
    \/ ScoreStep
    \/ CompleteStep
    \/ AutoEditStep

SpecEdit == EditInit /\ [][EditNext]_vars

----------------------------------------------------------------------------
(* C1: when the duration of the source is missing, zero, NaN or infinite, a *)
(* call of analyzeVideo throws before any sampling: no seek is issued, no   *)
(* frame is read, onProgress is never called and nothing is returned.       *)
C1_InvalidDurationFailsFast ==
    (source.durKind \in {"nan", "inf"} \/ source.dur = 0) =>
        /\ pc \in {"idle", "failed"}
        /\ (runs > 0 => pc = "failed" /\ error # None)
        /\ seeks = 0
        /\ ~seeking
        /\ canvas = None
        /\ frames = <<>>
        /\ progress = <<>>
        /\ result = None

\* a call on a source of duration zero has thrown
C1_Witness ==
    /\ pc = "failed"
    /\ source.durKind = "finite"
    /\ source.dur = 0
    /\ error # None

(* C2: when the fetch or the decoding of the audio throws, the call does    *)
(* not fail: it goes on to return a result whose audio holds one segment    *)
(* for every 0.5 s step below the duration (times 0, 0.5, ...) and whose    *)
(* waveform holds 1000 points.                                              *)
C2_FallbackStillCompletes ==
    usedFallback =>
        /\ pc \in {"segmented", "beats", "silence", "scored", "done"}
        /\ error = None
        /\ pc # "done" => ENABLED (DetectBeatsStep \/ FindSilenceStep \/ ScoreStep \/ CompleteStep)
        /\ \A k \in 1..Len(audio) :
              audio[k].time = (k - 1) * Interval /\ audio[k].time < source.dur
        /\ Len(audio) * Interval >= source.dur
        /\ waveform # None
        /\ waveform[1].length = WaveformSamples
        /\ pc = "done" => /\ result # None
                          /\ result[1].audio = audio
                          /\ result[1].waveform = waveform[1]

\* a call whose audio failed has returned, for a duration that is no multiple of 0.5 s
C2_Witness ==
    /\ usedFallback
    /\ pc = "done"
    /\ result # None
    /\ source.dur % Interval # 0
    /\ Len(result[1].audio) > 1

(* C3: on the path without the fallback the pipeline is deterministic: a    *)
(* call that decoded the audio returns, for the same source, the frames,    *)
(* audio segments, silent regions and viral clips (members, order, scores   *)
(* and ids) the previous such call returned.                                *)
C3_RerunSameResult ==
    (pc = "done" /\ ~usedFallback /\ prevResult # None /\ ~prevResult[1].usedFallback) =>
        /\ result # None
        /\ result[1].frames = prevResult[1].returned.frames
        /\ result[1].audio = prevResult[1].returned.audio
        /\ result[1].silentRegions = prevResult[1].returned.silentRegions
        /\ result[1].viralClips = prevResult[1].returned.viralClips
        /\ result[1] = prevResult[1].returned

\* the second of two calls that decoded the audio has returned viral clips, and the canvas
\* the first call left shows another picture than the first frame
C3_Witness ==
    /\ pc = "done"
    /\ runs = 2
    /\ ~usedFallback
    /\ prevResult # None
    /\ ~prevResult[1].usedFallback
    /\ result[1].viralClips # <<>>
    /\ result[1].frames[1].thumbnail # Some(SourcePicture(source, source.dur - 1))

Scored == pc \in {"scored", "done"}

(* C4 as claimed: two distinct returned candidates overlap by at most half  *)
(* the duration of the shorter of the two.                                  *)
C4_OverlapWithinHalfOfShorter ==
    Scored =>
        \A i, j \in 1..Len(viralClips) :
            i # j => 2 * Overlap(viralClips[i], viralClips[j])
                       <= Min(viralClips[i].duration, viralClips[j].duration)

(* C4 as amended: two distinct returned candidates overlap by at most half  *)
(* the duration of the one listed later.                                    *)
C4_OverlapWithinHalfOfLater ==
    Scored =>
        \A i, j \in 1..Len(viralClips) :
            i < j => 2 * Overlap(viralClips[i], viralClips[j]) <= viralClips[j].duration

\* a returned 15 s candidate lies inside a 30 s candidate listed after it
C4_Witness ==
    /\ Scored
    /\ \E i, j \in 1..Len(viralClips) :
          /\ i < j
          /\ viralClips[i].duration < viralClips[j].duration
          /\ Overlap(viralClips[i], viralClips[j]) = viralClips[i].duration
          /\ 2 * Overlap(viralClips[i], viralClips[j]) = viralClips[j].duration

(* C5 as claimed: for kept candidates a and b with a scoring at least as    *)
(* much as b, ties included, they overlap by at most half b's duration.     *)
C5_OverlapWithinHalfOfNotHigher ==
    Scored =>
        LET kept == removeOverlaps(candidates) IN
        \A i, j \in 1..Len(kept) :
            (i # j /\ kept[i].viralityScore >= kept[j].viralityScore)
                => 2 * Overlap(kept[i], kept[j]) <= kept[j].duration

(* C5 as amended: for kept candidates a and b with a scoring strictly more  *)
(* than b, they overlap by at most half b's duration.                       *)
C5_OverlapWithinHalfOfLower ==
    Scored =>
        LET kept == removeOverlaps(candidates) IN
        \A i, j \in 1..Len(kept) :
            kept[i].viralityScore > kept[j].viralityScore
                => 2 * Overlap(kept[i], kept[j]) <= kept[j].duration

\* a kept candidate overlaps a longer, lower scored kept candidate by half that one's duration
C5_Witness ==
    /\ Scored
    /\ LET kept == removeOverlaps(candidates) IN
       \E i, j \in 1..Len(kept) :
          /\ kept[i].viralityScore > kept[j].viralityScore
          /\ kept[i].duration < kept[j].duration
          /\ 2 * Overlap(kept[i], kept[j]) = kept[j].duration

(* C6: every returned candidate is well formed: its score is in 0..100, its *)
(* end minus its start is its duration, its duration is 15, 30 or 60 s and  *)
(* at most the total duration, and it lies inside [0, total duration]; a    *)
(* video shorter than 15 s has no candidates.                               *)
C6_CandidatesWellFormed ==
    Scored =>
        /\ \A i \in 1..Len(viralClips) :
              LET c == viralClips[i] IN
              /\ c.viralityScore >= 0
              /\ c.viralityScore <= 100
              /\ c.endTime - c.startTime = c.duration
              /\ c.duration \in {15 * TicksPerSec, 30 * TicksPerSec, 60 * TicksPerSec}
              /\ c.duration <= source.dur
              /\ c.startTime >= 0
              /\ c.endTime <= source.dur
        /\ (source.dur < 15 * TicksPerSec => viralClips = <<>>)

\* a 60 s candidate that ends with the video, and a 15 s one that does not start at 0
C6_Witness ==
    /\ Scored
    /\ \E i, j \in 1..Len(viralClips) :
          /\ viralClips[i].duration = 60 * TicksPerSec
          /\ viralClips[i].endTime = source.dur
          /\ viralClips[j].duration = 15 * TicksPerSec
          /\ viralClips[j].startTime > 0

(* C7: at most 10 candidates are returned, each scoring more than 35, in    *)
(* non-increasing order of score; and a slid window scoring more than 35    *)
(* that is not returned overlaps a candidate kept before it by more than    *)
(* half its own duration or ranks after the 10th survivor.                  *)
C7_TopTenAndComplete ==
    Scored =>
        LET ids(seq) == { seq[i].id : i \in 1..Len(seq) }
            pos(c) == CHOOSE p \in 1..Len(candidates) : candidates[p] = c
            windows == UNION { { <<clipDurations[j], st>> :
                                   st \in WindowStarts(clipDurations[j], source.dur) }
                               : j \in 1..Len(clipDurations) }
            score(w) == WindowScore(frames, scenes, audio, beats, silentRegions,
                                    w[2], w[1]).viralityScore
            high == { w \in windows : score(w) > MinScore }
        IN  /\ Len(viralClips) <= 10
            /\ \A i \in 1..Len(viralClips) : viralClips[i].viralityScore > 35
            /\ \A i, j \in 1..Len(viralClips) :
                  i < j => viralClips[i].viralityScore >= viralClips[j].viralityScore
            \* the candidates are the slid windows scoring more than 35, ranked
            /\ Cardinality(high) = Len(candidates)
            /\ \A w \in high :
                  \E p \in 1..Len(candidates) :
                      /\ candidates[p].startTime = w[2]
                      /\ candidates[p].duration = w[1] * TicksPerSec
                      /\ candidates[p].viralityScore = score(w)
            /\ \A i \in 1..Len(viralClips) :
                  \E p \in 1..Len(candidates) : candidates[p] = viralClips[i]
            /\ \A p \in 1..Len(candidates) :
                  (\A i \in 1..Len(viralClips) : viralClips[i] # candidates[p])
                  => \/ \E i \in 1..Len(viralClips) :
                           /\ pos(viralClips[i]) < p
                           /\ 2 * Overlap(viralClips[i], candidates[p])
                                > candidates[p].duration
                     \/ /\ Len(viralClips) = 10
                        /\ pos(viralClips[10]) < p

\* ten candidates are returned, an eleventh survivor of the overlap removal is cut off,
\* and a window scoring more than 35 was removed for its overlap
C7_Witness ==
    /\ Scored
    /\ Len(viralClips) = 10
    /\ Len(removeOverlaps(candidates)) > 10
    /\ Len(removeOverlaps(candidates)) < Len(candidates)
    /\ viralClips[1].viralityScore > viralClips[10].viralityScore

----------------------------------------------------------------------------
(* C8: every region findSilentRegions returns lasts at least one second     *)
(* (so its end is after its start), and no two returned regions overlap.    *)
C8_SilentRegionsWellFormed ==
    pc = "silence" =>
        /\ \A k \in 1..Len(silentRegions) :
              /\ silentRegions[k].end - silentRegions[k].start >= TicksPerSec
              /\ silentRegions[k].end > silentRegions[k].start
        /\ \A k, l \in 1..Len(silentRegions) :
              k < l => silentRegions[k].end <= silentRegions[l].start

\* two regions are returned, the first of exactly one second
C8_Witness ==
    /\ pc = "silence"
    /\ Len(silentRegions) = 2
    /\ silentRegions[1].end - silentRegions[1].start = TicksPerSec

\* the position where the run of silent segments that reaches the end of the track begins
\* (Len + 1 when the last segment is not silent)
TrailingRunStart(segments) ==
    LET n == Len(segments)
        loud == { j \in 1..n : ~segments[j].isSilent }
    IN  IF loud = {} THEN 1
        ELSE (CHOOSE j \in loud : \A l \in loud : l <= j) + 1

(* C9: a run of silent segments still open at the end of the track is       *)
(* returned as a region when it lasts at least one second (measured to the  *)
(* end of the track).                                                       *)
C9_TrailingRunEmitted ==
    pc = "silence" =>
        LET n == Len(audio)
            s == TrailingRunStart(audio)
        IN  (s <= n /\ n * Interval - audio[s].time >= TicksPerSec)
            => \E k \in 1..Len(silentRegions) : silentRegions[k].start = audio[s].time

(* C10: segment i is a beat exactly when it is interior, rises by more than *)
(* 0.03 over its predecessor and is followed by a fall; the marker carries  *)
(* the segment's time and the rise; fewer than 3 segments give no beats.    *)
C10_BeatsExactlyPeaks ==
    pc \in {"beats", "silence"} =>
        LET n == Len(audio)
            marked(j) == \E k \in 1..Len(beats) : beats[k].time = audio[j].time
        IN  /\ \A j \in 1..n :
                  marked(j) <=> /\ 1 < j
                                /\ j < n
                                /\ audio[j].energy - audio[j - 1].energy > BeatRise
                                /\ audio[j + 1].energy - audio[j].energy < 0
            /\ \A k \in 1..Len(beats) :
                  \E j \in 2..(n - 1) :
                      /\ beats[k].time = audio[j].time
                      /\ beats[k].strength = audio[j].energy - audio[j - 1].energy
            /\ \A k, l \in 1..Len(beats) : k < l => beats[k].time < beats[l].time
            /\ (n < 3 => beats = <<>>)

\* a beat is marked, and a rise of exactly 0.03 followed by a fall is not
C10_Witness ==
    /\ pc = "beats"
    /\ Len(beats) = 1
    /\ \E j \in 2..(Len(audio) - 1) :
          /\ audio[j].energy - audio[j - 1].energy = BeatRise
          /\ audio[j + 1].energy < audio[j].energy

----------------------------------------------------------------------------
\* the frames whose motion delta is not zero
Moving == { k \in 1..Len(frames) : frames[k].motionDelta > 0 }

(* C11: when the sampled frames are static but for one spike of motion at   *)
(* t = 5 s, detectSceneChanges returns exactly one scene change, at the     *)
(* spike, with a confidence in (0, 1].                                      *)
C11_SingleSpikeDetected ==
    (/\ pc = "fetch"
     /\ Cardinality(Moving) = 1
     /\ \A k \in Moving : frames[k].time = 5 * TicksPerSec)
        => /\ Len(scenes) = 1
           /\ scenes[1].time = 5 * TicksPerSec
           /\ RLess(RInt(0), scenes[1].confidence)
           /\ ~RLess(RInt(1), scenes[1].confidence)

\* extractFrames has returned
Extracted ==
    pc \in {"frames", "fetch", "arrayBuffer", "decode", "segmented", "beats", "silence",
            "scored", "done"}

C13_MotionDeltaInUnitRange ==
    \A k \in 1..Len(frames) :
        /\ frames[k].motionDelta >= 0
        /\ frames[k].motionDelta <= MotionDen
        /\ (k = 1 => frames[k].motionDelta = 0)

\* isSilent = (energy < 0.01) for every segment of a segment sequence
SilentIffBelowBar(segs) ==
    \A k \in 1..Len(segs) : segs[k].isSilent <=> (segs[k].energy < SilenceRms)

(* C14: every audio segment of every returned result, decoded or synthetic, *)
(* has isSilent = (energy < 0.01).                                          *)
C14_SilentIffBelowThreshold ==
    /\ (result # None => SilentIffBelowBar(result[1].audio))
    /\ (prevResult # None => SilentIffBelowBar(prevResult[1].returned.audio))

\* a call whose audio failed has returned, after a call on the same instance that decoded
\* a silent and a loud segment
C14_Witness ==
    /\ pc = "done"
    /\ usedFallback
    /\ result # None
    /\ result[1].audio # <<>>
    /\ prevResult # None
    /\ ~prevResult[1].usedFallback
    /\ \E k, l \in 1..Len(prevResult[1].returned.audio) :
          /\ prevResult[1].returned.audio[k].isSilent
          /\ ~prevResult[1].returned.audio[l].isSilent

(* C15: the id of a candidate is made of its start rounded to whole seconds *)
(* and its clip length, and no two windows of one findViralClips run get    *)
(* the same id.                                                             *)
C15_CandidateIdsDistinct ==
    Scored =>
        /\ \A i, j \in 1..Len(candidates) :
              i # j => candidates[i].id # candidates[j].id
        /\ \A i \in 1..Len(candidates) :
              candidates[i].id = <<"vc", (candidates[i].startTime + 2) \div TicksPerSec,
                                   candidates[i].duration \div TicksPerSec>>

\* two candidates of different lengths start at the same rounded second, and a candidate
\* starts off the whole seconds
C15_Witness ==
    /\ Scored
    /\ \E i, j \in 1..Len(candidates) :
          /\ candidates[i].id[2] = candidates[j].id[2]
          /\ candidates[i].duration # candidates[j].duration
    /\ \E i \in 1..Len(candidates) : candidates[i].startTime % TicksPerSec # 0

----------------------------------------------------------------------------
\* the sum of the durations of the clips of a reel
ReelSum(clips) == SumField(clips, "duration")

(* C16: for every list of candidates and every budget (a duration, so not   *)
(* negative), the reel createHighlightReel returns has a totalDuration that *)
(* is the sum of its members' durations and is at most the budget.          *)
C16_ReelWithinBudget ==
    (edit # None /\ "targetDuration" \in DOMAIN edit[1]) =>
        LET reel == edit[1].highlightReel IN
        /\ reel.totalDuration = ReelSum(reel.clips)
        /\ reel.totalDuration <= edit[1].targetDuration
        /\ \A i \in 1..Len(reel.clips) : \E j \in 1..Len(viralClips) : reel.clips[i] = viralClips[j]

\* a reel of two clips out of three candidates that stays under its budget: the third
\* candidate did not fit
C16_Witness ==
    /\ edit # None
    /\ "targetDuration" \in DOMAIN edit[1]
    /\ Len(viralClips) = 3
    /\ Len(edit[1].highlightReel.clips) = 2
    /\ edit[1].highlightReel.totalDuration < edit[1].targetDuration
    /\ edit[1].highlightReel.totalDuration > 0

\* autoEdit has returned for the stored result
Edited == pc = "done" /\ result # None /\ edit # None /\ "actions" \in DOMAIN edit[1]

\* the length of the part of a silent region inside [0, duration]
SilentInside(region, duration) == Max(0, Min(region.end, duration) - Max(region.start, 0))

(* C17: the clips autoEdit rebuilds are the complement of the silent        *)
(* regions in [0, duration]: in increasing order, disjoint, each of         *)
(* positive duration, none reaching into a silent region, and their         *)
(* durations sum to the duration less the silent time inside [0, duration]. *)
C17_ClipsComplementSilence ==
    Edited =>
        LET clips == edit[1].clips
            regions == result[1].silentRegions
            duration == result[1].duration
        IN  /\ \A i \in 1..Len(clips) :
                  /\ clips[i].duration > 0
                  /\ clips[i].startTime >= 0
                  /\ clips[i].startTime + clips[i].duration <= duration
                  /\ i < Len(clips) =>
                        clips[i].startTime + clips[i].duration <= clips[i + 1].startTime
                  /\ \A r \in 1..Len(regions) :
                        Min(clips[i].startTime + clips[i].duration, regions[r].end)
                            <= Max(clips[i].startTime, regions[r].start)
            /\ SumField(clips, "duration")
                 = duration - SumField([r \in 1..Len(regions) |->
                                           [inside |-> SilentInside(regions[r], duration)]],
                                       "inside")

\* two clips around a silent region, the last ending with a duration that is no multiple
\* of 0.5 s
C17_Witness ==
    /\ Edited
    /\ Len(edit[1].clips) = 2
    /\ Len(result[1].silentRegions) = 1
    /\ result[1].duration % Interval # 0
    /\ edit[1].clips[2].startTime + edit[1].clips[2].duration = result[1].duration

(* C18: a segment counts as low-energy exactly when it is not silent and    *)
(* its energy is below 40% of the mean energy of the segments that are not  *)
(* silent.                                                                  *)
C18_LowEnergyAgainstNonSilentMean ==
    Edited =>
        LET aud == result[1].audio
            loud == SelectSeq(aud, LAMBDA a : ~a.isSilent)
            low == LowEnergySegments(aud)
        IN  \A k \in 1..Len(aud) :
                (\E l \in 1..Len(low) : low[l] = aud[k])
                    <=> /\ ~aud[k].isSilent
                        /\ 10 * aud[k].energy * Len(loud) < 4 * SumField(loud, "energy")

(* C19: low-energy segments no more than 1 s apart are merged into one run, *)
(* and autoEdit emits one speed action for every run that spans at least    *)
(* 1.5 s of audio (from the first segment's start to the last segment's     *)
(* end) and none for a shorter run.                                         *)
C19_SpeedPerLongRun ==
    Edited =>
        LET low == LowEnergySegments(result[1].audio)
            n == Len(low)
            joined(k) == low[k].time - low[k - 1].time <= 1 * TicksPerSec
            firsts == { i \in 1..n : i = 1 \/ ~joined(i) }
            last(i) == CHOOSE j \in i..n :
                          /\ \A k \in (i + 1)..j : joined(k)
                          /\ (j = n \/ ~joined(j + 1))
            long == { i \in firsts : low[last(i)].time + Interval - low[i].time >= MinRun }
            speeds == SelectSeq(edit[1].actions, LAMBDA a : a.type = "speed")
        IN  /\ Len(speeds) = Cardinality(long)
            /\ \A i \in long :
                  \E s \in 1..Len(speeds) :
                      /\ speeds[s].startTime = low[i].time
                      /\ speeds[s].endTime = low[last(i)].time + Interval

(* C20: every onProgress call carries a percent in 0..100; within one stage *)
(* label the percents never decrease; a run that returned made its last     *)
(* call with ("Complete", 100); and 100 is reported by no other call, so by *)
(* no run that failed and by no call after the terminal one.                *)
C20_ProgressWellFormed ==
    /\ \A k \in 1..Len(progress) : progress[k][2] \in 0..100
    /\ \A k, l \in 1..Len(progress) :
          (k < l /\ progress[k][1] = progress[l][1]) => progress[k][2] <= progress[l][2]
    /\ (pc = "done" => /\ progress # <<>>
                       /\ progress[Len(progress)] = Call("Complete", 100))
    /\ \A k \in 1..Len(progress) :
          progress[k][2] = 100 => (pc = "done" /\ k = Len(progress))
    /\ (pc = "failed" => \A k \in 1..Len(progress) : progress[k][2] < 100)

\* a run has returned whose frame loop reported more than once, the last time above 30
C20_Witness ==
    /\ pc = "done"
    /\ progress[Len(progress)] = Call("Complete", 100)
    /\ \E k, l \in 1..Len(progress) :
          /\ k < l
          /\ progress[k][1] = "Extracting frames"
          /\ progress[l][1] = "Extracting frames"
          /\ progress[k][2] > 0
          /\ progress[l][2] > 30

----------------------------------------------------------------------------
(* VideoEditor (src/unnamed/part_002): the component that owns the video     *)
(* element, one VideoIntelligence and one SmartEditor, and the handlers the  *)
(* user reaches.  An event handler runs to its end before the next event is  *)
(* handled, and the code after an await runs, as a microtask, before the     *)
(* next event.  The advance of the playback position while the video plays,  *)
(* the clips on the timeline and the panels are not followed.                *)

\* the object URLs created by handleFileSelect are numbered 1..MaxLoads
MaxLoads == 2
\* the Analyze button is clicked at most MaxEditorRuns times
MaxEditorRuns == 2
\* the duration of the file with pictures the user picks, in ticks
MaxFileDur == 3

\* the video element before the metadata of a file is there: duration is NaN
NoMedia ==
    [durKind |-> "nan", dur |-> 0, blockSegs |-> 1, vTex |-> <<"static">>, aTex |-> <<"loud">>]

\* the files the user picks: one without a readable duration, and one whose picture
\* alternates between black and white every half second
EditorFiles ==
    {NoMedia,
     [durKind |-> "finite", dur |-> MaxFileDur, blockSegs |-> 1,
      vTex |-> [k \in 1..Steps(MaxFileDur) |-> IF k % 2 = 1 THEN "static" ELSE "bright"],
      aTex |-> [k \in 1..Steps(MaxFileDur) |-> "loud"]]}

\* the times a skip button or a click on the timeline seeks to, in ticks
SeekTargets == 0..MaxFileDur

\* analyzeVideo has returned or thrown and the code of runAnalysis after its await has
\* not run yet: it runs before any event handler does
Settling == pending # <<>> /\ pc \in {"done", "failed"}

\* the code of analyzeVideo between two awaits has not run to its next await yet: the
\* stages the model takes one after the other run without a pause in between
Computing == pc \in {"frames", "segmented", "beats", "silence", "scored"}

\* no event handler runs before the code that is due has run
Busy == Settling \/ Computing

\* a toolbar that shows the Analyze button whenever no result is stored
AnalyzeShown_WhileAnalyzing == analysisResult = None

\* the toolbar renders the Analyze button: isAnalyzing ? spinner : (!analysisResult ? button : ...)
AnalyzeShown == ~isAnalyzing /\ analysisResult = None

\* the toolbar renders the Auto-Edit button
AutoEditShown == ~isAnalyzing /\ analysisResult # None

\* handleFileSelect for a video file (the drop, the file input and the URL import call
\* it): the element gets the new src, which resets it: its position is 0, it is paused,
\* and a seek under way is dropped without a 'seeked' event
HandleFileSelect(file) ==
    /\ ~Busy
    /\ videoSrc < MaxLoads
    /\ videoSrc' = videoSrc + 1                 \* URL.createObjectURL(file)
    /\ source' = file
    /\ isPlaying' = FALSE
    /\ analysisResult' = None
    /\ currentTime' = 0
    /\ seeking' = FALSE
    /\ UNCHANGED <<pc, canvas, frames, audio, waveform, usedFallback, progress, seeks,
                   analysisProgress, edit, isAnalyzing, alerts, pending>>
    /\ UNCHANGED RunLocals
    /\ UNCHANGED Detected
    /\ UNCHANGED Outcome

\* runAnalysis, from the click on the Analyze button up to the first await of the call
RunAnalysis ==
    /\ ~Busy
    /\ AnalyzeShown
    /\ videoSrc # 0                             \* if (!videoRef.current || !videoSrc) return
    /\ isAnalyzing' = TRUE
    /\ pending' = Append(pending, videoSrc)
    /\ CallAnalyzeVideo(MaxEditorRuns, TRUE)
    /\ UNCHANGED <<edit, videoSrc, isPlaying, analysisResult, alerts>>

\* the last of the pending calls is the one the pipeline state belongs to
Settled == SubSeq(pending, 1, Len(pending) - 1)

\* a catch block that stores what the run had sampled
RejectedResult_Partial(stored) ==
    Some([video |-> pending[Len(pending)], result |-> [frames |-> frames]])

\* the catch block of runAnalysis leaves analysisResult alone
RejectedResult(stored) == stored

\* the await of runAnalysis returns: setAnalysisResult(result), then the finally block
AnalysisReturned ==
    /\ pc = "done"
    /\ pending # <<>>
    /\ analysisResult' = Some([video |-> pending[Len(pending)], result |-> result[1]])
    /\ isAnalyzing' = FALSE
    /\ analysisProgress' = None                 \* finally: setAnalysisProgress(null)
    /\ pending' = Settled
    /\ UNCHANGED <<source, pc, canvas, frames, audio, waveform, usedFallback, progress,
                   edit, videoSrc, isPlaying, alerts>>
    /\ UNCHANGED RunLocals
    /\ UNCHANGED VideoElement
    /\ UNCHANGED Detected
    /\ UNCHANGED Outcome

\* the await of runAnalysis throws: the catch block alerts, then the finally block
AnalysisRejected ==
    /\ pc = "failed"
    /\ pending # <<>>
    /\ alerts' = alerts + 1                     \* alert("Analysis failed. Please try again.")
    /\ analysisResult' = RejectedResult(analysisResult)
    /\ isAnalyzing' = FALSE
    /\ analysisProgress' = None                 \* finally: setAnalysisProgress(null)
    /\ pending' = Settled
    /\ UNCHANGED <<source, pc, canvas, frames, audio, waveform, usedFallback, progress,
                   edit, videoSrc, isPlaying>>
    /\ UNCHANGED RunLocals
    /\ UNCHANGED VideoElement
    /\ UNCHANGED Detected
    /\ UNCHANGED Outcome

\* togglePlay, from the click on the video or on the play button: video.pause() or
\* video.play(), then setIsPlaying(!isPlaying)
TogglePlay ==
    /\ ~Busy
    /\ isPlaying' = ~isPlaying
    /\ UNCHANGED <<source, pc, canvas, frames, audio, waveform, usedFallback, progress,
                   analysisProgress, edit, videoSrc, isAnalyzing, analysisResult, alerts,
                   pending>>
    /\ UNCHANGED RunLocals
    /\ UNCHANGED VideoElement
    /\ UNCHANGED Detected
    /\ UNCHANGED Outcome

\* seekTo(t), from a skip button or a click on the timeline: videoRef.current.currentTime = t
\* when a video is loaded; the element seeks once its duration is known, and a seek that
\* is under way is replaced by the new one
SeekTo(t) ==
    /\ ~Busy
    /\ videoSrc # 0
    /\ source.durKind = "finite"
    /\ currentTime' = Min(t, source.dur)
    /\ seeking' = TRUE
    /\ UNCHANGED <<source, pc, canvas, frames, audio, waveform, usedFallback, progress,
                   analysisProgress, seeks>>
    /\ UNCHANGED RunLocals
    /\ UNCHANGED Detected
    /\ UNCHANGED Outcome
    /\ UNCHANGED Editor

\* 'seeked' fires while extractFrames has no listener on the element
SeekedUnheard ==
    /\ ~Busy
    /\ seeking
    /\ pc # "seeking"
    /\ seeking' = FALSE
    /\ UNCHANGED <<source, pc, canvas, frames, audio, waveform, usedFallback, progress,
                   analysisProgress, currentTime, seeks>>
    /\ UNCHANGED RunLocals
    /\ UNCHANGED Detected
    /\ UNCHANGED Outcome
    /\ UNCHANGED Editor

\* 'seeked' fires and the loop body throws (drawImage, getImageData or toDataURL raising):
\* extractFrames rejects, and so does analyzeVideo
FrameThrows ==
    /\ pc = "seeking"
    /\ seeking
    /\ seeking' = FALSE
    /\ error' = Some("frame")
    /\ pc' = "failed"
    /\ UNCHANGED <<source, canvas, frames, audio, waveform, usedFallback, progress,
                   analysisProgress, currentTime, seeks, result, prevResult, runs>>
    /\ UNCHANGED RunLocals
    /\ UNCHANGED Detected
    /\ UNCHANGED Editor

\* applyAutoEdit, from the click on the Auto-Edit button: smartEditor.autoEdit(analysisResult)
ApplyAutoEdit ==
    /\ ~Busy
    /\ AutoEditShown
    /\ analysisResult # None                    \* if (!analysisResult) return
    /\ edit' = Some(autoEdit(analysisResult[1].result))
    /\ UNCHANGED <<source, pc, canvas, frames, audio, waveform, usedFallback, progress,
                   analysisProgress>>
    /\ UNCHANGED RunLocals
    /\ UNCHANGED VideoElement
    /\ UNCHANGED Detected
    /\ UNCHANGED Outcome
    /\ UNCHANGED Ui

----------------------------------------------------------------------------
(* SpecEditor: the user imports files, clicks Analyze and Auto-Edit, plays   *)
(* and seeks, in any order, while the analysis runs seek by seek; the audio  *)
(* is fetched and decoded without a pause.                                   *)

EditorInit ==
    /\ source = NoMedia
    /\ pc = "idle"
    /\ Fresh

EditorNext ==
    \/ \E file \in EditorFiles : HandleFileSelect(file)
    \/ RunAnalysis
    \/ TogglePlay
    \/ \E t \in SeekTargets : SeekTo(t)
    \/ ApplyAutoEdit
    \/ Seeked
    \/ SeekedUnheard
    \/ FrameThrows
    \/ ScenesStep
    \/ DecodeAll
    \/ DetectBeatsStep
    \/ FindSilenceStep
    \/ ScoreStep
    \/ CompleteStep
    \/ AnalysisReturned
    \/ AnalysisRejected

SpecEditor == EditorInit /\ [][EditorNext]_vars

\* the browser answers the seek the sampler waits for: the loop body runs, or throws
SeekAnswered == Seeked \/ FrameThrows

\* what the browser and the run do without the user: a seek is answered, an await
\* settles, the code after an await runs.  None of them waits for ever once it can happen
RunFairness ==
    /\ WF_vars(SeekAnswered)
    /\ WF_vars(SeekedUnheard)
    /\ WF_vars(ScenesStep)
    /\ WF_vars(DecodeAll)
    /\ WF_vars(DetectBeatsStep)
    /\ WF_vars(FindSilenceStep)
    /\ WF_vars(ScoreStep)
    /\ WF_vars(CompleteStep)
    /\ WF_vars(AnalysisReturned)
    /\ WF_vars(AnalysisRejected)

\* SpecEditorLive: SpecEditor where the browser and the run never stop while one of
\* their steps is possible; the user may stop at any time
SpecEditorLive == EditorInit /\ [][EditorNext]_vars /\ RunFairness

----------------------------------------------------------------------------
(* C21: a call of analyzeVideo that fails (at the duration test or while it *)
(* samples) returns nothing, partial or not; and the editor, when the       *)
(* failure reaches it, leaves analysisResult as it was, shows one alert,    *)
(* and clears isAnalyzing and analysisProgress; no alert is shown at any    *)
(* other time.                                                              *)
C21_FailureIsAllOrNothing ==
    /\ [](pc = "failed" => /\ result = None
                           /\ error # None
                           /\ (pending = <<>> => ~isAnalyzing /\ analysisProgress = None))
    /\ [][(pc = "failed" /\ Len(pending') < Len(pending)) =>
             /\ analysisResult' = analysisResult
             /\ alerts' = alerts + 1
             /\ ~isAnalyzing'
             /\ analysisProgress' = None]_vars
    /\ [][alerts' # alerts => (pc = "failed" /\ Len(pending') < Len(pending))]_vars

\* a run that had sampled a frame and shown its progress failed, and the editor has
\* handled the failure
C21_Witness ==
    /\ pc = "failed"
    /\ error = Some("frame")
    /\ frames # <<>>
    /\ progress # <<>>
    /\ pending = <<>>
    /\ alerts = 1
    /\ ~isAnalyzing
    /\ analysisProgress = None
    /\ analysisResult = None

----------------------------------------------------------------------------
(* SpecDegenerate: the detectors, the scorer and the three SmartEditor       *)
(* methods on inputs with nothing to find: no frames and no audio at all     *)
(* (what the stages are handed for a source without length, which            *)
(* analyzeVideo itself refuses at line 201), short sources whose picture is  *)
(* black or white and whose audio is silent or loud in every half second,    *)
(* and long sources that are black and silent throughout.                    *)

\* the longest duration of a short degenerate source, in ticks
MaxStillDur == 6

StillVideoTextures == {"static", "bright"}
StillAudioTextures == {"silent", "loud"}

\* the long sources that never move and never sound
StillSources ==
    { src \in LongSources : /\ \A b \in DOMAIN src.vTex : src.vTex[b] = "static"
                            /\ \A b \in DOMAIN src.aTex : src.aTex[b] = "silent" }

DegenerateSources ==
    SourcesOf(1..MaxStillDur, 1, StillVideoTextures, StillAudioTextures) \cup StillSources

\* extractFrames has returned no frame at all
NoInput ==
    /\ source = [durKind |-> "finite", dur |-> 0, blockSegs |-> 1,
                 vTex |-> <<"static">>, aTex |-> <<"silent">>]
    /\ pc = "frames"
    /\ frames = <<>>
    /\ frameIdx = 0
    /\ totalFrames = 0
    /\ currentTime = 0
    /\ seeking = FALSE
    /\ seeks = 0
    /\ canvas = None
    /\ prevPixels = None
    /\ progress = <<Call("Extracting frames", 0)>>
    /\ scenes = <<>>
    /\ audio = <<>>
    /\ waveform = None
    /\ beats = <<>>
    /\ silentRegions = <<>>
    /\ candidates = <<>>
    /\ viralClips = <<>>
    /\ usedFallback = FALSE
    /\ result = None
    /\ error = None
    /\ prevResult = None
    /\ runs = 1
    /\ edit = None
    /\ runDuration = 0
    /\ UiIdle

DegenerateInit ==
    \/ NoInput
    \/ \E src \in DegenerateSources : Sampled(src)

\* b.strength > 0.05, the strength counted in thousandths
suggestBeatSyncCuts(analysis) ==
    LET strong == SelectSeq(analysis.beats, LAMBDA b : b.strength > 50)
    IN  [j \in 1..Len(strong) |->
            [type |-> "split", startTime |-> strong[j].time, endTime |-> strong[j].time,
             label |-> <<"Cut on beat">>,
             \* Math.min(1, b.strength * 10)
             confidence |-> RMin(RInt(1), Rat(strong[j].strength, 100)),
             icon |-> "music_note"]]

\* suggestBeatSyncCuts called on the result analyzeVideo returned
BeatSyncStep ==
    /\ pc = "done"
    /\ result # None
    /\ edit = None
    /\ edit' = Some([beatSyncCuts |-> suggestBeatSyncCuts(result[1])])
    /\ UNCHANGED <<source, pc, canvas, frames, audio, waveform, usedFallback, progress,
                   analysisProgress>>
    /\ UNCHANGED RunLocals
    /\ UNCHANGED VideoElement
    /\ UNCHANGED Detected
    /\ UNCHANGED Outcome
    /\ UNCHANGED Ui

\* createHighlightReel called on the viral clips of the result, with a budget of 60 s
HighlightStep ==
    /\ pc = "done"
    /\ ReelStep(ReelBudget * TicksPerSec)

DegenerateNext ==
    \/ ScenesStep
    \/ DecodeAll
    \/ DetectBeatsStep
    \/ FindSilenceStep
    \/ ScoreStep
    \/ CompleteStep
    \/ AutoEditStep
    \/ HighlightStep
    \/ BeatSyncStep

SpecDegenerate == DegenerateInit /\ [][DegenerateNext]_vars

\* no frame of the run differs from the one before it
Motionless == \A j \in DOMAIN frames : frames[j].motionDelta = 0

\* no audio segment of the run reaches the silence threshold
FullySilent == \A j \in DOMAIN audio : audio[j].isSilent

\* the stage named by at has run in the current run
Past(at) ==
    LET order == <<"frames", "fetch", "arrayBuffer", "decode", "segmented", "beats",
                  "silence", "scored", "done">>
        pos(s) == CHOOSE k \in DOMAIN order : order[k] = s
    IN  pc \in {order[k] : k \in DOMAIN order} /\ pos(pc) >= pos(at)

(* C22: degenerate inputs are valid outcomes, not errors.  No stage fails; without   *)
(* frames, or with frames that never move, detectSceneChanges returns no scene;      *)
(* without audio segments detectBeats and findSilentRegions return nothing; without  *)
(* candidates findViralClips returns no clip; on a result without silent regions,    *)
(* scenes and audio autoEdit returns no action, and on one without viral clips its   *)
(* highlight reel, and that of createHighlightReel, has no clip, no length and the   *)
(* estimated viral score 0; without beats suggestBeatSyncCuts returns nothing; and a *)
(* fully silent, motionless video of whatever length has no viral clips.             *)
C22_DegenerateInputsGiveEmpty ==
    /\ pc # "failed" /\ error = None
    /\ (Past("fetch") /\ (frames = <<>> \/ Motionless)) => scenes = <<>>
    /\ (Past("beats") /\ audio = <<>>) => beats = <<>>
    /\ (Past("silence") /\ audio = <<>>) => silentRegions = <<>>
    /\ (Past("scored") /\ candidates = <<>>) => viralClips = <<>>
    /\ (Past("scored") /\ Motionless /\ FullySilent) => viralClips = <<>>
    /\ (Past("done") /\ edit # None) =>
          /\ "actions" \in DOMAIN edit[1] =>
                /\ (silentRegions = <<>> /\ scenes = <<>> /\ audio = <<>>) =>
                       edit[1].actions = <<>>
                /\ frames = <<>> => edit[1].clips = <<>>
          /\ ("highlightReel" \in DOMAIN edit[1] /\ viralClips = <<>>) =>
                /\ edit[1].highlightReel.clips = <<>>
                /\ edit[1].highlightReel.totalDuration = 0
                /\ edit[1].highlightReel.estimatedViralScore = 0
          /\ ("beatSyncCuts" \in DOMAIN edit[1] /\ beats = <<>>) =>
                edit[1].beatSyncCuts = <<>>

\* a black, silent video of 75 s went through the whole pipeline and autoEdit: nothing
\* was found, and the reel is empty with score 0
C22_Witness ==
    /\ pc = "done"
    /\ runDuration = 75 * TicksPerSec
    /\ Motionless /\ FullySilent
    /\ scenes = <<>> /\ beats = <<>> /\ candidates = <<>> /\ viralClips = <<>>
    /\ edit # None
    /\ "actions" \in DOMAIN edit[1]
    /\ edit[1].actions = <<>>
    /\ edit[1].highlightReel.estimatedViralScore = 0

----------------------------------------------------------------------------
(* C23: while a run samples frames the sampler alone moves the playback      *)
(* position.  Between a seek of extractFrames and the pixel read that        *)
(* answers it no step changes video.currentTime or starts or stops playback, *)
(* so every frame pushed carries the time of the position its pixels were    *)
(* read at.                                                                  *)
C23_SamplerOwnsPosition ==
    /\ [][(pc = "seeking" /\ pc' = "seeking" /\ frames' = frames) =>
             (currentTime' = currentTime /\ isPlaying' = isPlaying)]_vars
    /\ [][Len(frames') = Len(frames) + 1 =>
             frames'[Len(frames')].time = currentTime]_vars

----------------------------------------------------------------------------
(* C24: no two analysis runs are in flight at once on the editor's one       *)
(* VideoIntelligence.  At most one runAnalysis call waits for analyzeVideo,  *)
(* and analyzeVideo is only called when none does and the call before it,    *)
(* if any, has returned or thrown; a file import or an Auto-Edit in between  *)
(* does not change that.                                                     *)
C24_OneRunInFlight ==
    /\ [](Len(pending) <= 1)
    /\ [](pending # <<>> => isAnalyzing)
    /\ [][runs' > runs => /\ pending = <<>>
                          /\ pc \in {"idle", "done", "failed"}
                          /\ Len(pending') = 1]_vars

\* the second run is sampling: the first one returned, its result was dropped by the
\* import of another file, and Analyze was clicked again
C24_Witness ==
    /\ runs = 2
    /\ pc = "seeking"
    /\ pending = <<2>>
    /\ videoSrc = 2
    /\ isAnalyzing
    /\ prevResult # None
    /\ ~AnalyzeShown

----------------------------------------------------------------------------
\* the step makes the onProgress call that opens the stage
Calls(stage) ==
    \E k \in 1..Len(progress') :
        /\ progress'[k][1] = stage
        /\ (k > Len(progress) \/ runs' > runs)

\* how often the run has made the onProgress call call
TimesCalled(call) == Cardinality({k \in 1..Len(progress) : progress[k] = call})

\* extractFrames has returned all its frames
SamplingDone == Past("frames") /\ Len(frames) = totalFrames

\* analyzeAudioFromVideo has returned its segments and waveform
SegmentingDone == Past("segmented") /\ waveform # None

\* no stage of a run is entered twice: every frame is sought and read once, and every
\* later stage is announced once
EachStageOnce ==
    /\ Len(frames) <= totalFrames
    /\ seeks <= totalFrames
    /\ \A call \in {Call("Detecting scenes", 40),
                    Call("Analyzing audio", 55), Call("Finding beats", 70),
                    Call("Detecting silence", 75), Call("Scoring clips", 85),
                    Call("Complete", 100)} : TimesCalled(call) <= 1

(* C25, as stated: the stages of a run execute in the order sample, segment, detect, *)
(* score, each at most once; the scene, beat and silence detectors each start only   *)
(* after both frame sampling and audio segmentation have finished, and scoring       *)
(* starts only after all detectors have finished.                                    *)
C25_DetectorsAfterSegmenting ==
    /\ []EachStageOnce
    /\ [][Calls("Analyzing audio") => SamplingDone]_vars
    /\ [][Calls("Detecting scenes") => (SamplingDone /\ SegmentingDone)]_vars
    /\ [][Calls("Finding beats") => (SamplingDone /\ SegmentingDone)]_vars
    /\ [][Calls("Detecting silence") => (SamplingDone /\ SegmentingDone)]_vars
    /\ [][Calls("Scoring clips") => Past("silence")]_vars

(* C25, amended: the stages of a run execute in the order sample, detect scenes,     *)
(* segment, detect beats and silence, score, each at most once and with no retries;  *)
(* scene detection starts only after frame sampling has finished and before audio    *)
(* segmentation, the beat and silence detectors start only after both frame sampling *)
(* and audio segmentation have finished, and scoring starts only after all detectors *)
(* have finished.                                                                    *)
C25_StagesInOrder ==
    /\ []EachStageOnce
    /\ [][Calls("Detecting scenes") => (SamplingDone /\ pc = "frames")]_vars
    /\ [][Calls("Analyzing audio") => (SamplingDone /\ ~SegmentingDone)]_vars
    /\ [][Calls("Finding beats") => (SamplingDone /\ SegmentingDone)]_vars
    /\ [][Calls("Detecting silence") => (SamplingDone /\ SegmentingDone /\ pc = "beats")]_vars
    /\ [][Calls("Scoring clips") => pc = "silence"]_vars
    /\ [][Calls("Complete") => pc = "scored"]_vars

\* a second run has returned: it sampled several frames, decoded the audio and went
\* through every stage once
C25_Witness ==
    /\ pc = "done"
    /\ runs = 2
    /\ totalFrames >= 2
    /\ SamplingDone /\ SegmentingDone
    /\ ~usedFallback
    /\ [k \in 1..Len(progress) |-> progress[k][1]] =
          <<"Extracting frames", "Extracting frames", "Detecting scenes", "Analyzing audio",
            "Analyzing audio", "Finding beats", "Detecting silence", "Scoring clips",
            "Complete">>

----------------------------------------------------------------------------
(* C26: every analysis run started from the editor terminates.  Whenever     *)
(* isAnalyzing is true it is false again later, with the progress display    *)
(* cleared: analyzeVideo returns or throws, also when a seek of the sampler  *)
(* is never answered, which is then a failure of the run.                    *)
C26_RunTerminates == isAnalyzing ~> (~isAnalyzing /\ analysisProgress = None)

----------------------------------------------------------------------------
(* C27: the editor never holds a result computed from a file loaded before   *)
(* the current one.  Whatever analysisResult holds was returned by a run     *)
(* that runAnalysis started on the video that is loaded now; after           *)
(* handleFileSelect it is null until such a run returns, also when a run on  *)
(* the old video was under way at the time of the import.                    *)
C27_ResultOfLoadedVideo ==
    analysisResult # None => analysisResult[1].video = videoSrc

----------------------------------------------------------------------------
(* SpecSpeed: autoEdit applied to the result analyzeVideo returns for        *)
(* sources long enough to hold a run of low-energy audio and a silent region *)
(* at once; the audio of every half second is silent, soft or loud.  The     *)
(* frames are sampled and the audio is decoded without a pause.              *)

\* the longest duration of such a source, in ticks: seven half-second segments
MaxSpeedDur == 14

SpeedAudioTextures == {"silent", "soft", "loud"}

SpeedInit ==
    \E src \in SourcesOf((MaxSpeedDur - 1)..MaxSpeedDur, 1, {"static"}, SpeedAudioTextures) :
        Sampled(src)

SpecSpeed == SpeedInit /\ [][EditNext]_vars

\* the actions of one type that autoEdit returned
ActionsOf(type) == SelectSeq(edit[1].actions, LAMBDA a : a.type = type)

(* C28: no speed action of autoEdit overlaps a cut action, when the silent regions   *)
(* of the result were found by findSilentRegions in the audio segments of the same   *)
(* result: every speed interval ends at or before the start of every cut interval or *)
(* begins at or after its end, so no merged low-energy run bridges a silent region.  *)
C28_SpeedAvoidsCuts ==
    (Edited /\ silentRegions = findSilentRegions(audio)) =>
        \A s \in DOMAIN ActionsOf("speed"), c \in DOMAIN ActionsOf("cut") :
            \/ ActionsOf("speed")[s].endTime <= ActionsOf("cut")[c].startTime
            \/ ActionsOf("speed")[s].startTime >= ActionsOf("cut")[c].endTime

\* autoEdit returned a cut and a speed action, and the run behind the speed action was
\* merged across a single silent segment, which is too short to be a silent region
C28_Witness ==
    /\ Edited
    /\ ActionsOf("cut") # <<>>
    /\ \E s \in DOMAIN ActionsOf("speed"), k \in DOMAIN audio :
          /\ audio[k].isSilent
          /\ ActionsOf("speed")[s].startTime < audio[k].time
          /\ audio[k].time < ActionsOf("speed")[s].endTime

----------------------------------------------------------------------------
(* SpecTransitions: autoEdit applied to the result analyzeVideo returns for  *)
(* the sources of SpecScenes, whose picture may change every SceneBlock      *)
(* frames; the frames are sampled and the audio is decoded without a pause.  *)

SpecTransitions == ScenesInit /\ [][EditNext]_vars

(* C29: every scene change detectSceneChanges returns has a confidence above 0.5 and *)
(* of at most 1, and a time of at least one sampling interval, so never that of the  *)
(* first frame; the filter confidence > 0.5 of autoEdit therefore drops none of      *)
(* them: autoEdit emits one transition action per scene change, in their order, each *)
(* around the time of its scene change and with a startTime of at least 0.           *)
C29_ScenesAllBecomeTransitions ==
    /\ Past("fetch") =>
          \A j \in DOMAIN scenes :
              /\ RLess(Rat(1, 2), scenes[j].confidence)
              /\ ~RLess(RInt(1), scenes[j].confidence)
              /\ scenes[j].time >= Interval
    /\ Edited =>
          /\ Len(ActionsOf("transition")) = Len(scenes)
          /\ \A j \in DOMAIN ActionsOf("transition") :
                /\ ActionsOf("transition")[j] = TransitionAction(scenes[j])
                /\ ~RLess(ActionsOf("transition")[j].startTime, RInt(0))

\* autoEdit returned two transitions for two scene changes, one of them with a
\* confidence strictly between 0.5 and 1
C29_Witness ==
    /\ Edited
    /\ Len(scenes) = 2
    /\ Len(ActionsOf("transition")) = 2
    /\ \E j \in DOMAIN scenes : RLess(scenes[j].confidence, RInt(1))

----------------------------------------------------------------------------
(* SpecFallback: analyzeVideo after extractFrames on long sources whose      *)
(* audio cannot be fetched or decoded, so that the catch block of            *)
(* analyzeAudioFromVideo makes up the segments, followed by autoEdit.  The   *)
(* picture is still, drifts or cuts; the energies drawn are the two ends of  *)
(* [0.3, 0.7), the same for every segment or one of them in every second or  *)
(* third segment.                                                            *)

FallbackSources ==
    { src \in LongSources : \A b \in DOMAIN src.aTex : src.aTex[b] = "silent" }

FallbackInit == \E src \in FallbackSources : Sampled(src)

\* the draws of Math.random() for n segments that are followed
FallbackDraws(n) ==
    { [k \in 1..n |-> IF k % p = 0 THEN hi ELSE lo] :
        p \in 1..3, lo \in RandomEnergies, hi \in RandomEnergies }

\* fetch, arrayBuffer or decodeAudioData throws: the catch block of lines 345-358
AudioThrowsPeriodic == AudioThrowsDrawing(FallbackDraws(Steps(source.dur)))

FallbackNext ==
    \/ ScenesStep
    \/ AudioThrowsPeriodic
    \/ DetectBeatsStep
    \/ FindSilenceStep
    \/ ScoreStep
    \/ CompleteStep
    \/ AutoEditStep

SpecFallback == FallbackInit /\ [][FallbackNext]_vars

\* the windows findViralClips slides over the run's duration, as <<start, clipLen>>
Windows ==
    UNION { { <<start, clipDurations[j]>> : start \in WindowStarts(clipDurations[j], runDuration) }
            : j \in DOMAIN clipDurations }

\* the scores findViralClips computes for the window w
ScoreOf(w) == WindowScore(frames, scenes, audio, beats, silentRegions, w[1], w[2])

(* C30: on the audio fallback path every synthetic segment has an energy in          *)
(* [0.3, 0.7) and is not silent; the result has no silent regions and autoEdit emits *)
(* no cut action; every window findViralClips slides gets energyScore 30 and         *)
(* silenceScore 15 and so a viralityScore of at least 45, and every window becomes a *)
(* candidate, whatever the video shows.                                              *)
C30_FallbackWindowsAllPass ==
    usedFallback =>
        /\ Past("segmented") =>
              \A k \in DOMAIN audio :
                  /\ audio[k].energy >= 300
                  /\ audio[k].energy < 700
                  /\ ~audio[k].isSilent
        /\ Past("silence") => silentRegions = <<>>
        /\ Past("scored") =>
              /\ \A w \in Windows :
                    /\ ScoreOf(w).energyScore = RInt(30)
                    /\ ScoreOf(w).silenceScore = RInt(15)
                    /\ ScoreOf(w).viralityScore >= 45
              /\ Len(candidates) = Cardinality(Windows)
              /\ \A c \in DOMAIN candidates : candidates[c].viralityScore >= 45
        /\ Edited => ActionsOf("cut") = <<>>

\* a still video of 75 s went through the fallback and autoEdit: its windows of 15, 30
\* and 60 s are all candidates, the lowest of them with a score of exactly 45
C30_Witness ==
    /\ Edited
    /\ usedFallback
    /\ runDuration = 75 * TicksPerSec
    /\ Motionless
    /\ \E w \in Windows : w[2] = 60
    /\ Len(candidates) = Cardinality(Windows)
    /\ \E c \in DOMAIN candidates : candidates[c].viralityScore = 45
    /\ ActionsOf("cut") = <<>>

====
